---------------------------- MODULE Spec2Model ----------------------------
(***************************************************************************)
(* POI enrichment of src/src/clustering_pipeline.py: the cache file, the   *)
(* lookup client nearby_count, enrich_row_with_pois and the enrichment     *)
(* loops of the two entry points gerar_regioes_ideais and main.            *)
(*                                                                         *)
(* Coordinates are integers in units of 1e-7 degree, so that rounding to   *)
(* 6 decimals (the cache key) and to 2 decimals (the representative cell)  *)
(* are both computed and can disagree.                                     *)
(***************************************************************************)
EXTENDS Integers, Sequences, FiniteSets, TLC

(* ----------------------------- bounds --------------------------------- *)
\* most records of one input table
MaxRecs == 2
\* most results carried by one OK response
MaxResults == 1
\* most records of a table of many cells
MaxRows == 12
\* most records of a table handed to build_features on its own
MaxFeatRows == 3
\* largest POI count of such a table
MaxCount == 2
\* most records of a table of sample clients
MaxClients == 3
\* most records of a table of two alternating clients
MaxN == 125

(* ------------------------ program constants --------------------------- *)
\* nearby_count: max_retries = 1
max_retries == 1
\* gerar_regioes_ideais: min(10, len(locais_unicos))
max_locais_cap == 10
\* nearby_count: wait_time = min(2**page, 10)
wait_cap == 10
\* nearby_count: time.sleep(2) after a timeout
timeout_sleep == 2

\* PLACES_TYPES: label -> list of concrete place types
PLACES_TYPES == [gym |-> <<"gym">>, supermarket |-> <<"supermarket">>]
\* iteration order of PLACES_TYPES.items()
PLACES_LABELS == <<"gym", "supermarket">>
RADII == <<800>>

\* HTTP statuses nearby_count retries itself
TRANSIENT_STATUS == {429, 500, 503}
\* status_forcelist of the Retry adapter mounted by create_session_with_retry
status_forcelist == {429, 500, 502, 503, 504}

\* a missing cell of the record table (NaN) and a present one
NaN == <<>>
Val(v) == <<v>>

(* ------------------------------ helpers ------------------------------- *)
Min(a, b) == IF a <= b THEN a ELSE b

RECURSIVE Pow2(_)
Pow2(n) == IF n = 0 THEN 1 ELSE 2 * Pow2(n - 1)

\* round(x, 6) of a coordinate held in 1e-7 degrees, in units of 1e-6
Round6(u) == (u + 5) \div 10
\* round(x, 2) of a coordinate held in 1e-7 degrees, in units of 1e-2
Round2(u) == (u + 50000) \div 100000

\* hkey: the digest of "round(lat,6)|round(lon,6)|place_type|radius"; the
\* digest is one-to-one on the formatted string, modelled by its fields
hkey(lat, lon, place_type, radius) ==
    <<Round6(lat), Round6(lon), place_type, radius>>

\* f"poi_{label}_{radius}m"
PoiCol(label, radius) == <<"poi", label, radius>>

\* the POI columns of PLACES_TYPES x RADII
AllPoiCols ==
    {PoiCol(PLACES_LABELS[a], RADII[b]) :
        a \in 1..Len(PLACES_LABELS), b \in 1..Len(RADII)}

\* the (label, radius, type) triples in the order the nested loops of
\* enrich_row_with_pois visit them
RECURSIVE TypesOf(_, _, _)
TypesOf(label, radius, j) ==
    IF j > Len(PLACES_TYPES[label]) THEN <<>>
    ELSE <<[label |-> label, radius |-> radius, tp |-> PLACES_TYPES[label][j]]>>
         \o TypesOf(label, radius, j + 1)

RECURSIVE RadiiOf(_, _)
RadiiOf(label, b) ==
    IF b > Len(RADII) THEN <<>>
    ELSE TypesOf(label, RADII[b], 1) \o RadiiOf(label, b + 1)

RECURSIVE LabelsFrom(_)
LabelsFrom(a) ==
    IF a > Len(PLACES_LABELS) THEN <<>>
    ELSE RadiiOf(PLACES_LABELS[a], 1) \o LabelsFrom(a + 1)

Triples == LabelsFrom(1)

\* cache_df.loc[cache_df["h"] == hk]: the positions of the matching rows
CacheRows(cache_df, hk) == {p \in 1..Len(cache_df) : cache_df[p].h = hk}

\* not cached.empty
IsCached_Never(cache_df, hk) == FALSE

IsCached(cache_df, hk) == CacheRows(cache_df, hk) # {}

\* int(cached.iloc[0]["count"]): the count of the first matching row
CachedCount(cache_df, hk) ==
    LET p == CHOOSE q \in CacheRows(cache_df, hk) :
                 \A r \in CacheRows(cache_df, hk) : q <= r
    IN  cache_df[p].count

\* results of the except branch of enrich_row_with_pois: every column 0
ZeroFeats == [c \in AllPoiCols |-> 0]

\* an empty dict
EmptyDict == [c \in {} |-> 0]

\* results[f"poi_{label}_{radius}m"] = subtotal, subtotal summing the counts
\* of the label's types
AddCount(results, t, cnt) ==
    LET c == PoiCol(t.label, t.radius)
    IN  IF c \in DOMAIN results
        THEN [results EXCEPT ![c] = @ + cnt]
        ELSE results @@ (c :> cnt)

(* --------------------------- sample inputs ---------------------------- *)
\* the documented location (lat = -3.7319, lon = -38.5267)
Scenario == [lat |-> -37319000, lon |-> -385267000]
\* every sample location has the longitude of the documented one
SampleLons == {Scenario.lon}
\* lat = -3.7319 (the documented location), -3.7349996 (same 2-decimal cell
\* -3.73, other key) and -3.7350004 (same 6-decimal key -3.735 as the
\* second, but cell -3.74)
SampleLats == {Scenario.lat, -37349996, -37350004}

\* the records the data loader can deliver: numeric coordinates only
CleanRows == [lat : SampleLats, lon : SampleLons, numeric : {TRUE}]

\* read_csv of main also keeps a row whose latitude is not a number
\* (float(row["lat"]) raises); its other fields do not matter
RawRows == CleanRows \cup {[lat |-> 0, lon |-> 0, numeric |-> FALSE]}

Tables(rows) == UNION {[1..n -> rows] : n \in 0..MaxRecs}

\* cache files left by earlier runs: none, the documented entry (count 5),
\* or both keys of the documented location
\* one row of the cache table (its ts column is a clock reading, left out)
CacheRow(lat, lon, tp, radius, count) ==
    [h |-> hkey(lat, lon, tp, radius), lat |-> lat, lon |-> lon,
     type |-> tp, radius |-> radius, count |-> count]

InitialFiles ==
    { <<>>,
      <<CacheRow(Scenario.lat, Scenario.lon, "gym", 800, 5)>>,
      <<CacheRow(Scenario.lat, Scenario.lon, "gym", 800, 5),
        CacheRow(Scenario.lat, Scenario.lon, "supermarket", 800, 0)>> }

(* ------------------------ the HTTP exchange --------------------------- *)
Response(http, status, n) ==
    [exc |-> "none", http |-> http, status |-> status, n |-> n]
Raised(exc) ==
    [exc |-> exc, http |-> 0, status |-> "", n |-> 0]

\* what one GET can give back to a plain requests.Session
PlainOutcomes ==
    {Response(200, "OK", n) : n \in 1..MaxResults}
    \cup {Response(200, "ZERO_RESULTS", 0),
          Response(200, "OVER_QUERY_LIMIT", 0),
          Response(200, "REQUEST_DENIED", 0),
          Response(200, "unparsable", 0)}
    \cup {Response(h, "", 0) : h \in {429, 500, 503, 404, 502}}
    \cup {Raised("Timeout"), Raised("ConnectionError")}

\* create_session_with_retry: the adapter re-sends a GET answered with a
\* status of status_forcelist and raises RetryError when its retries are
\* used up, so such a response never reaches the caller of session.get
RetryOutcomes ==
    {o \in PlainOutcomes : o.http \notin status_forcelist}
    \cup {Raised("RetryError")}

SessionGet(session) ==
    IF session = "retry" THEN RetryOutcomes ELSE PlainOutcomes

(* ------------------------------ state --------------------------------- *)
VARIABLES
    API_KEY,        \* TRUE iff GOOGLE_API_KEY is set
    CACHE_FILE,     \* rows of cache_places.parquet, in file order
    runs,           \* 0: nothing has run, 1: first run, 2: the run repeated
    entry,          \* "none", "gerar", "main", "direct"
    pc,             \* position in the running entry point
    usar_api,
    df,             \* the record table: sequence of rows
    poi,            \* POI columns of df: column -> cell per row
    cache,          \* the table returned by load_cache()
    sess,           \* "retry", "plain" or "none"
    locais_amostra, \* row numbers of the representative locations
    i,              \* position of the enrichment loop
    pois_por_local, \* (lat_round, lon_round) -> feats
    all_new,
    k,              \* enrich_row_with_pois: position in Triples
    results,
    new_records,
    page,           \* nearby_count locals
    total,
    cnt,            \* value returned by nearby_count
    hist,           \* outcomes of the requests of the current call
    sleeps,         \* waits of the current call
    calls,          \* history: nearby_count calls of this run
    rowcalls,       \* history: nearby_count calls for the current row
    reqs,           \* history: requests issued in this run
    file0,          \* history: CACHE_FILE when the run started
    prev,           \* history: the last completed enrichment run
    excepted,       \* history: representatives whose loop body raised
    footer,         \* TRUE iff the cache file ends with its parquet footer
    nicho,          \* the niche label of the run
    filtros,        \* classe, tipo and bairro of the filter specification
    df_filtrado,    \* row numbers (index labels) of df kept by the filters
    df_feat,        \* the table returned by build_features
    n_clusters,
    labels,         \* km.labels_: cluster label of every row of df_filtrado
    peso,           \* rank_clusters: <<peso_poi, peso_classe>>, in tenths
    ranking,        \* rows of the table returned by rank_clusters
    regioes,        \* the list gerar_regioes_ideais returns
    fits,           \* history: calls of fit_kmeans in this run
    caught,         \* history: the handler of lines 493-497 ran in this run
    columns,        \* the column names of the table being loaded
    error           \* the exception the entry point raised to its caller

enrichVars == <<k, results, new_records, rowcalls>>
callVars == <<page, total, cnt, hist, sleeps>>
runVars == <<API_KEY, runs, entry, usar_api, df, file0, prev>>
loopVars == <<cache, sess, locais_amostra, i, pois_por_local, all_new, excepted>>
\* the stages after the enrichment: filters, features, clustering, ranking
pipeVars == <<nicho, filtros, df_filtrado, df_feat, n_clusters, labels, peso,
              ranking, regioes, fits, caught, columns, error>>

vars == <<API_KEY, CACHE_FILE, runs, entry, pc, usar_api, df, poi, cache, sess,
          locais_amostra, i, pois_por_local, all_new, k, results, new_records,
          page, total, cnt, hist, sleeps, calls, rowcalls, reqs, file0, prev,
          excepted, footer, nicho, filtros, df_filtrado, df_feat, n_clusters,
          labels, peso, ranking, regioes, fits, caught, columns, error>>

NoPrev == [entry |-> "none", df |-> <<>>, usar_api |-> FALSE]

\* no filter: filtros.get("classe"), .get("tipo"), .get("bairro") are empty
NoFiltros == [classe |-> {}, tipo |-> "", bairro |-> {}]

\* no feature table yet
NoFeat == [classe_ord |-> <<>>, tipo_comercial |-> <<>>, cols |-> EmptyDict]

\* the locals of the later stages before any of them has run
PipeReset ==
    /\ nicho = "Outro"
    /\ filtros = NoFiltros
    /\ df_filtrado = <<>>
    /\ df_feat = NoFeat
    /\ n_clusters = 0
    /\ labels = <<>>
    /\ peso = <<>>
    /\ ranking = <<>>
    /\ regioes = <<>>
    /\ fits = 0
    /\ caught = FALSE
    /\ columns = {}
    /\ error = <<>>

Init ==
    /\ API_KEY \in BOOLEAN
    /\ CACHE_FILE \in InitialFiles
    /\ runs = 0
    /\ entry = "none"
    /\ pc = "idle"
    /\ usar_api = FALSE
    /\ df = <<>>
    /\ poi = EmptyDict
    /\ cache = <<>>
    /\ sess = "none"
    /\ locais_amostra = <<>>
    /\ i = 1
    /\ pois_por_local = EmptyDict
    /\ all_new = <<>>
    /\ k = 1
    /\ results = EmptyDict
    /\ new_records = <<>>
    /\ page = 0
    /\ total = 0
    /\ cnt = 0
    /\ hist = <<>>
    /\ sleeps = <<>>
    /\ calls = 0
    /\ rowcalls = 0
    /\ reqs = 0
    /\ file0 = CACHE_FILE
    /\ prev = NoPrev
    /\ excepted = {}
    /\ footer = TRUE
    /\ PipeReset

(* ========================== the record table ========================== *)
\* (lat_round, lon_round) of a row: df['lat'].round(2), df['lon'].round(2)
Cell(row) == <<Round2(row.lat), Round2(row.lon)>>

\* df.drop_duplicates(subset=['lat_round','lon_round']): the first row of
\* every cell, in table order
RECURSIVE LocaisUnicos(_, _)
LocaisUnicos(table, r) ==
    IF r > Len(table) THEN <<>>
    ELSE IF \E q \in 1..(r - 1) : Cell(table[q]) = Cell(table[r])
         THEN LocaisUnicos(table, r + 1)
         ELSE <<r>> \o LocaisUnicos(table, r + 1)

\* locais_unicos.head(max_locais)
HeadRows_All(seq, n) == seq

HeadRows(seq, n) == SubSeq(seq, 1, Min(n, Len(seq)))

\* d[key] = value on a dict
Put(d, key, value) ==
    [x \in (DOMAIN d) \cup {key} |-> IF x = key THEN value ELSE d[x]]

\* lines 361-365: for every row whose cell is a key of pois_por_local,
\* df.at[idx, k] = v for the items of its feats; a column created by an
\* assignment is NaN in the rows not assigned
Propagate_OnlyRepresentatives(table, cols, ppl) ==
    LET first(r) == \A q \in 1..(r - 1) : Cell(table[q]) # Cell(table[r])
        has(r) == Cell(table[r]) \in DOMAIN ppl /\ first(r)
        feats(r) == ppl[Cell(table[r])]
        newcols == UNION {DOMAIN feats(r) : r \in {q \in 1..Len(table) : has(q)}}
    IN  [c \in (DOMAIN cols) \cup newcols |->
            [r \in 1..Len(table) |->
                IF has(r) /\ c \in DOMAIN feats(r) THEN Val(feats(r)[c])
                ELSE IF c \in DOMAIN cols THEN cols[c][r]
                ELSE NaN]]

Propagate(table, cols, ppl) ==
    LET has(r) == Cell(table[r]) \in DOMAIN ppl
        feats(r) == ppl[Cell(table[r])]
        newcols == UNION {DOMAIN feats(r) : r \in {q \in 1..Len(table) : has(q)}}
    IN  [c \in (DOMAIN cols) \cup newcols |->
            [r \in 1..Len(table) |->
                IF has(r) /\ c \in DOMAIN feats(r) THEN Val(feats(r)[c])
                ELSE IF c \in DOMAIN cols THEN cols[c][r]
                ELSE NaN]]

\* main, lines 607-608: df.at[i, k] = v for the items of feats
SetRow(table, cols, row, feats) ==
    [c \in (DOMAIN cols) \cup (DOMAIN feats) |->
        [r \in 1..Len(table) |->
            IF r = row /\ c \in DOMAIN feats THEN Val(feats[c])
            ELSE IF c \in DOMAIN cols THEN cols[c][r]
            ELSE NaN]]

\* df[f"poi_{label}_{r}m"] = 0 for every label and radius
ZeroCols(table, cols) ==
    [c \in (DOMAIN cols) \cup AllPoiCols |->
        [r \in 1..Len(table) |->
            IF c \in AllPoiCols THEN Val(0) ELSE cols[c][r]]]

\* pd.concat([cache, pd.DataFrame(all_new)]) written by save_cache, when
\* all_new is not empty
SavedFile_NotSaved(file, loaded, staged) == file

SavedFile_OnlyNew(file, loaded, staged) ==
    IF staged # <<>> THEN staged ELSE file

SavedFile(file, loaded, staged) ==
    IF staged # <<>> THEN loaded \o staged ELSE file

(* ============================ build_features ========================== *)
NormCol(c) == c \o <<"norm">>

\* c.startswith("poi_") and c.endswith("m"): the raw POI columns of a table
\* that has no _norm column yet
RawPoiCols(cols) == {c \in DOMAIN cols : Len(c) = 3}

\* fillna(0)
FillNa(cell) == IF cell = NaN THEN 0 ELSE cell[1]

SeqMin(col) == CHOOSE m \in {FillNa(col[r]) : r \in DOMAIN col} :
                   \A r \in DOMAIN col : m <= FillNa(col[r])
SeqMax(col) == CHOOSE m \in {FillNa(col[r]) : r \in DOMAIN col} :
                   \A r \in DOMAIN col : m >= FillNa(col[r])

\* ranges[ranges == 0] = 1
Range_NoGuard(col) == SeqMax(col) - SeqMin(col)

Range(col) == IF SeqMax(col) - SeqMin(col) = 0 THEN 1
              ELSE SeqMax(col) - SeqMin(col)

\* lines 206-220: the raw columns with NaN filled by 0, and for each of them
\* a _norm column holding the fraction (v - min) / range
build_features(cols) ==
    [c \in (DOMAIN cols) \cup {NormCol(x) : x \in RawPoiCols(cols)} |->
        IF c \in RawPoiCols(cols)
        THEN [r \in DOMAIN cols[c] |-> Val(FillNa(cols[c][r]))]
        ELSE IF c \in DOMAIN cols THEN cols[c]
        ELSE LET raw == cols[SubSeq(c, 1, 3)]
             IN  [r \in DOMAIN raw |->
                    Val([num |-> FillNa(raw[r]) - SeqMin(raw), den |-> Range(raw)])]]

(* ======================= enrich_row_with_pois ========================= *)
\* the row handed to enrich_row_with_pois by the running loop
CurRow == IF entry = "gerar" THEN df[locais_amostra[i]] ELSE df[i]

CurKey == hkey(CurRow.lat, CurRow.lon, Triples[k].tp, Triples[k].radius)

\* the loop of either entry point calls enrich_row_with_pois(row, cache, sess)
EnterEnrichRow ==
    /\ pc' = "er_try"
    /\ k' = 1
    /\ results' = EmptyDict
    /\ new_records' = <<>>
    /\ rowcalls' = 0

\* line 146-148: lat, lon = float(row["lat"]), float(row["lon"])
EnrichRowParsed ==
    /\ pc = "er_try"
    /\ CurRow.numeric
    /\ pc' = "er_key"
    /\ UNCHANGED <<CACHE_FILE, poi, calls, reqs>>
    /\ UNCHANGED <<runVars, loopVars, enrichVars, callVars>>
    /\ UNCHANGED <<footer, pipeVars>>

\* lines 146, 176-183: float() raises; every column 0, nothing staged
EnrichRowExcept ==
    /\ pc = "er_try"
    /\ ~CurRow.numeric
    /\ results' = ZeroFeats
    /\ new_records' = <<>>
    /\ pc' = "body"
    /\ UNCHANGED <<k, rowcalls>>
    /\ UNCHANGED <<CACHE_FILE, poi, calls, reqs>>
    /\ UNCHANGED <<runVars, loopVars, callVars>>
    /\ UNCHANGED <<footer, pipeVars>>

\* lines 154-158, 170-172: the key is in the loaded cache
EnrichCacheHit ==
    /\ pc = "er_key"
    /\ k <= Len(Triples)
    /\ IsCached(cache, CurKey)
    /\ results' = AddCount(results, Triples[k], CachedCount(cache, CurKey))
    /\ k' = k + 1
    /\ UNCHANGED <<pc, new_records, rowcalls>>
    /\ UNCHANGED <<CACHE_FILE, poi, calls, reqs>>
    /\ UNCHANGED <<runVars, loopVars, callVars>>
    /\ UNCHANGED <<footer, pipeVars>>

\* lines 154-160: the key is not in the loaded cache: call nearby_count
EnrichCacheMiss ==
    /\ pc = "er_key"
    /\ k <= Len(Triples)
    /\ ~IsCached(cache, CurKey)
    /\ pc' = "nc_enter"
    /\ calls' = calls + 1
    /\ rowcalls' = rowcalls + 1
    /\ UNCHANGED <<k, results, new_records>>
    /\ UNCHANGED <<CACHE_FILE, poi, reqs>>
    /\ UNCHANGED <<runVars, loopVars, callVars>>
    /\ UNCHANGED <<footer, pipeVars>>

\* lines 160-172: cnt = nearby_count(...) gets the value v; the record is
\* staged and v is added to the subtotal of the label
StageRecord(v) ==
    /\ new_records' = Append(new_records,
            CacheRow(CurRow.lat, CurRow.lon, Triples[k].tp, Triples[k].radius, v))
    /\ results' = AddCount(results, Triples[k], v)
    /\ k' = k + 1
    /\ pc' = "er_key"
    /\ UNCHANGED rowcalls

\* line 174: return results, new_records
EnrichRowReturn ==
    /\ pc = "er_key"
    /\ k > Len(Triples)
    /\ pc' = "body"
    /\ UNCHANGED <<CACHE_FILE, poi, calls, reqs>>
    /\ UNCHANGED <<runVars, loopVars, enrichVars, callVars>>
    /\ UNCHANGED <<footer, pipeVars>>

(* =========================== nearby_count ============================= *)
\* `return v`: control goes back to the caller. enrich_row_with_pois goes
\* on at line 161 and the locals of the call are gone; a direct caller
\* holds the value (outcomes are the outcomes of the requests of the call)
Return(v, outcomes) ==
    IF entry = "direct"
    THEN /\ cnt' = v
         /\ hist' = outcomes
         /\ pc' = "nc_ret"
         /\ UNCHANGED <<page, total, sleeps>>
         /\ UNCHANGED enrichVars
    ELSE /\ StageRecord(v)
         /\ page' = 0 /\ total' = 0 /\ cnt' = 0
         /\ hist' = <<>> /\ sleeps' = <<>>

\* line 86: if not API_KEY: return 0
NearbyNoKey ==
    /\ pc = "nc_enter"
    /\ ~API_KEY
    /\ Return(0, <<>>)
    /\ UNCHANGED <<CACHE_FILE, poi, calls, reqs>>
    /\ UNCHANGED <<runVars, loopVars>>
    /\ UNCHANGED <<footer, pipeVars>>

\* lines 89-92: total, page = 0, 0
NearbyBegin ==
    /\ pc = "nc_enter"
    /\ API_KEY
    /\ page' = 0
    /\ total' = 0
    /\ hist' = <<>>
    /\ sleeps' = <<>>
    /\ pc' = "nc_get"
    /\ UNCHANGED <<cnt, reqs>>
    /\ UNCHANGED <<CACHE_FILE, poi, calls>>
    /\ UNCHANGED <<runVars, loopVars, enrichVars>>
    /\ UNCHANGED <<footer, pipeVars>>

\* line 96: r = session.get(base, params=params, timeout=5) with outcome o
Get(o) ==
    /\ pc = "nc_get"
    /\ o \in SessionGet(sess)
    /\ reqs' = reqs + 1
    /\ UNCHANGED <<CACHE_FILE, poi, calls>>
    /\ UNCHANGED <<runVars, loopVars>>

\* `continue` after a wait of w seconds
Continue(o, w) ==
    /\ hist' = Append(hist, o)
    /\ sleeps' = Append(sleeps, w)
    /\ page' = page + 1
    /\ pc' = "nc_get"
    /\ UNCHANGED <<total, cnt>>
    /\ UNCHANGED enrichVars

\* line 99: r.status_code in (429, 500, 503)
IsTransient_AnyError(o) == o.exc = "none" /\ o.http >= 400

IsTransient(o) == o.exc = "none" /\ o.http \in TRANSIENT_STATUS

\* line 110: r.raise_for_status() raises HTTPError for a 4xx/5xx status
RaisesForStatus(o) == o.exc = "none" /\ o.http >= 400

\* line 100 and line 129: if page < max_retries
MayRetry_OnceMore == page < max_retries + 1

MayRetry == page < max_retries

\* lines 99-105: transient status, retries left: wait and ask again
NearbyStatusRetry ==
    \E o \in PlainOutcomes :
        /\ Get(o)
        /\ IsTransient(o)
        /\ MayRetry
        /\ Continue(o, Min(Pow2(page), wait_cap))
        /\ UNCHANGED <<footer, pipeVars>>

\* lines 106-108: transient status, no retry left
NearbyStatusGiveUp ==
    \E o \in PlainOutcomes :
        /\ Get(o)
        /\ IsTransient(o)
        /\ ~MayRetry
        /\ Return(0, Append(hist, o))
        /\ UNCHANGED <<footer, pipeVars>>

\* lines 110, 134-136: raise_for_status raises, caught as RequestException
NearbyHttpError ==
    \E o \in PlainOutcomes :
        /\ Get(o)
        /\ ~IsTransient(o)
        /\ RaisesForStatus(o)
        /\ Return(0, Append(hist, o))
        /\ UNCHANGED <<footer, pipeVars>>

\* lines 111, 134-139: r.json() raises on a body that is not JSON
NearbyBadBody ==
    \E o \in PlainOutcomes :
        /\ Get(o)
        /\ o.exc = "none" /\ o.http = 200
        /\ o.status = "unparsable"
        /\ Return(0, Append(hist, o))
        /\ UNCHANGED <<footer, pipeVars>>

\* lines 114-116
NearbyOverQueryLimit ==
    \E o \in PlainOutcomes :
        /\ Get(o)
        /\ o.exc = "none" /\ o.http = 200
        /\ o.status = "OVER_QUERY_LIMIT"
        /\ Return(0, Append(hist, o))
        /\ UNCHANGED <<footer, pipeVars>>

\* lines 117-119: any status other than OK and ZERO_RESULTS
NearbyApiError ==
    \E o \in PlainOutcomes :
        /\ Get(o)
        /\ o.exc = "none" /\ o.http = 200
        /\ o.status \notin {"unparsable", "OVER_QUERY_LIMIT", "OK", "ZERO_RESULTS"}
        /\ Return(0, Append(hist, o))
        /\ UNCHANGED <<footer, pipeVars>>

\* lines 121-125, 141: total += len(results); break; return total
NearbyOk_FirstAttemptOnly ==
    \E o \in PlainOutcomes :
        /\ Get(o)
        /\ o.exc = "none" /\ o.http = 200
        /\ o.status \in {"OK", "ZERO_RESULTS"}
        /\ Return(IF page = 0 THEN total + o.n ELSE 0, Append(hist, o))
        /\ UNCHANGED <<footer, pipeVars>>

NearbyOk ==
    \E o \in PlainOutcomes :
        /\ Get(o)
        /\ o.exc = "none" /\ o.http = 200
        /\ o.status \in {"OK", "ZERO_RESULTS"}
        /\ Return(total + o.n, Append(hist, o))
        /\ UNCHANGED <<footer, pipeVars>>

\* lines 127-132: Timeout, retries left: sleep 2 s and ask again
NearbyTimeoutRetry ==
    \E o \in PlainOutcomes :
        /\ Get(o)
        /\ o.exc = "Timeout"
        /\ MayRetry
        /\ Continue(o, timeout_sleep)
        /\ UNCHANGED <<footer, pipeVars>>

\* lines 127-133: Timeout, no retry left
NearbyTimeoutGiveUp ==
    \E o \in PlainOutcomes :
        /\ Get(o)
        /\ o.exc = "Timeout"
        /\ ~MayRetry
        /\ Return(0, Append(hist, o))
        /\ UNCHANGED <<footer, pipeVars>>

\* lines 134-136: any other RequestException
NearbyRequestException_Propagates ==
    \E o \in RetryOutcomes \cup PlainOutcomes :
        /\ Get(o)
        /\ o.exc \in {"ConnectionError", "RetryError"}
        /\ pc' = "nc_raise"
        /\ hist' = Append(hist, o)
        /\ UNCHANGED <<page, total, cnt, sleeps>>
        /\ UNCHANGED enrichVars
        /\ UNCHANGED <<footer, pipeVars>>

NearbyRequestException ==
    \E o \in RetryOutcomes \cup PlainOutcomes :
        /\ Get(o)
        /\ o.exc \in {"ConnectionError", "RetryError"}
        /\ Return(0, Append(hist, o))
        /\ UNCHANGED <<footer, pipeVars>>

\* a caller other than enrich_row_with_pois calls nearby_count with a
\* session of either kind
CallNearbyCount ==
    /\ pc = "idle"
    /\ runs = 0
    /\ runs' = runs + 1
    /\ entry' = "direct"
    /\ sess' \in {"plain", "retry"}
    /\ pc' = "nc_enter"
    /\ calls' = 1
    /\ reqs' = 0
    /\ file0' = CACHE_FILE
    /\ UNCHANGED <<API_KEY, usar_api, df, prev>>
    /\ UNCHANGED <<cache, locais_amostra, i, pois_por_local, all_new, excepted>>
    /\ UNCHANGED <<CACHE_FILE, poi>>
    /\ UNCHANGED <<enrichVars, callVars>>
    /\ UNCHANGED <<footer, pipeVars>>

(* ======================== gerar_regioes_ideais ======================== *)
\* what every entry point resets when it starts
StartRun(name, records, usar) ==
    /\ pc = "idle"
    /\ runs' = runs + 1
    /\ entry' = name
    /\ df' = records
    /\ poi' = EmptyDict
    /\ usar_api' = usar
    /\ locais_amostra' = <<>>
    /\ i' = 1
    /\ pois_por_local' = EmptyDict
    /\ all_new' = <<>>
    /\ excepted' = {}
    /\ calls' = 0
    /\ reqs' = 0
    /\ file0' = CACHE_FILE
    /\ UNCHANGED <<API_KEY, CACHE_FILE, prev>>
    /\ UNCHANGED <<enrichVars, callVars>>

\* lines 278-315: the table comes from the data loader, which keeps only
\* rows with numeric coordinates
StartGerar ==
    \E records \in Tables(CleanRows), usar \in BOOLEAN :
        /\ runs = 0
        /\ StartRun("gerar", records, usar)
        /\ pc' = "g_enter"
        /\ cache' = <<>>
        /\ sess' = "none"
        /\ UNCHANGED <<footer, pipeVars>>

\* the caller invokes gerar_regioes_ideais once more with the same data
\* file and the same filtros
RepeatGerar ==
    /\ runs = 1
    /\ prev.entry = "gerar"
    /\ StartRun("gerar", prev.df, prev.usar_api)
    /\ pc' = "g_enter"
    /\ cache' = <<>>
    /\ sess' = "none"
    /\ UNCHANGED <<footer, pipeVars>>

\* lines 317-339: usar_api and API_KEY; load_cache() reads the file
GerarEnrichBegin ==
    /\ pc = "g_enter" /\ entry = "gerar"
    /\ usar_api /\ API_KEY
    /\ footer
    /\ locais_amostra' = HeadRows(LocaisUnicos(df, 1), max_locais_cap)
    /\ cache' = CACHE_FILE
    /\ sess' = "retry"
    /\ all_new' = <<>>
    /\ pois_por_local' = EmptyDict
    /\ i' = 1
    /\ pc' = "g_loop"
    /\ UNCHANGED <<CACHE_FILE, poi, calls, reqs, excepted>>
    /\ UNCHANGED <<runVars, enrichVars, callVars>>
    /\ UNCHANGED <<footer, pipeVars>>

\* lines 374-375: usar_api and not API_KEY: a warning, no enrichment
GerarSkipNoKey_Exit ==
    /\ pc = "g_enter" /\ entry = "gerar"
    /\ usar_api /\ ~API_KEY
    /\ pc' = "exit"
    /\ UNCHANGED <<CACHE_FILE, poi, calls, reqs>>
    /\ UNCHANGED <<runVars, loopVars, enrichVars, callVars>>
    /\ UNCHANGED <<footer, pipeVars>>

GerarSkipNoKey ==
    /\ pc = "g_enter" /\ entry = "gerar"
    /\ usar_api /\ ~API_KEY
    /\ pc' = "g_cols"
    /\ UNCHANGED <<CACHE_FILE, poi, calls, reqs>>
    /\ UNCHANGED <<runVars, loopVars, enrichVars, callVars>>
    /\ UNCHANGED <<footer, pipeVars>>

\* line 317: usar_api is false
GerarSkipDisabled ==
    /\ pc = "g_enter" /\ entry = "gerar"
    /\ ~usar_api
    /\ pc' = "g_cols"
    /\ UNCHANGED <<CACHE_FILE, poi, calls, reqs>>
    /\ UNCHANGED <<runVars, loopVars, enrichVars, callVars>>
    /\ UNCHANGED <<footer, pipeVars>>

\* lines 341-343: next representative location
GerarLoopNext ==
    /\ pc = "g_loop"
    /\ i <= Len(locais_amostra)
    /\ EnterEnrichRow
    /\ UNCHANGED <<CACHE_FILE, poi, calls, reqs>>
    /\ UNCHANGED <<runVars, loopVars, callVars>>
    /\ UNCHANGED <<footer, pipeVars>>

\* lines 344-350: keep the feats of the location, collect the staged rows
GerarBody ==
    /\ pc = "body" /\ entry = "gerar"
    /\ pois_por_local' = Put(pois_por_local, Cell(CurRow), results)
    /\ all_new' = all_new \o new_records
    /\ i' = i + 1
    /\ pc' = "g_loop"
    /\ UNCHANGED <<cache, sess, locais_amostra, excepted>>
    /\ UNCHANGED <<CACHE_FILE, poi, calls, reqs>>
    /\ UNCHANGED <<runVars, enrichVars, callVars>>
    /\ UNCHANGED <<footer, pipeVars>>

\* lines 344-355: the loop body raises after lines 344-347 (the progress
\* print of line 350 is its last statement); the handler maps the
\* location to an empty dict and the loop goes on
GerarBodyExcept_Break ==
    /\ pc = "body" /\ entry = "gerar"
    /\ pois_por_local' = Put(pois_por_local, Cell(CurRow), EmptyDict)
    /\ all_new' = all_new \o new_records
    /\ excepted' = excepted \cup {Cell(CurRow)}
    /\ i' = Len(locais_amostra) + 1
    /\ pc' = "g_loop"
    /\ UNCHANGED <<cache, sess, locais_amostra>>
    /\ UNCHANGED <<CACHE_FILE, poi, calls, reqs>>
    /\ UNCHANGED <<runVars, enrichVars, callVars>>
    /\ UNCHANGED <<footer, pipeVars>>

GerarBodyExcept ==
    /\ pc = "body" /\ entry = "gerar"
    /\ pois_por_local' = Put(pois_por_local, Cell(CurRow), EmptyDict)
    /\ all_new' = all_new \o new_records
    /\ excepted' = excepted \cup {Cell(CurRow)}
    /\ i' = i + 1
    /\ pc' = "g_loop"
    /\ UNCHANGED <<cache, sess, locais_amostra>>
    /\ UNCHANGED <<CACHE_FILE, poi, calls, reqs>>
    /\ UNCHANGED <<runVars, enrichVars, callVars>>
    /\ UNCHANGED <<footer, pipeVars>>

\* lines 357-373: propagate the feats to the rows of each cell, then write
\* the cache file if anything was staged
GerarLoopEnd ==
    /\ pc = "g_loop"
    /\ i > Len(locais_amostra)
    /\ poi' = Propagate(df, poi, pois_por_local)
    /\ CACHE_FILE' = SavedFile(CACHE_FILE, cache, all_new)
    /\ pc' = "g_cols"
    /\ UNCHANGED <<calls, reqs>>
    /\ UNCHANGED <<runVars, loopVars, enrichVars, callVars>>
    /\ UNCHANGED <<footer, pipeVars>>

\* lines 377-382: if the table has no POI column, create them all, zero
EnsureCols_Omitted(table, cols) == cols

EnsureCols(table, cols) ==
    IF RawPoiCols(cols) = {} THEN ZeroCols(table, cols) ELSE cols

\* lines 377-396: no record left: return []
GerarEmpty ==
    /\ pc = "g_cols"
    /\ poi' = EnsureCols(df, poi)
    /\ Len(df) = 0
    /\ pc' = "returned"
    /\ UNCHANGED <<CACHE_FILE, calls, reqs>>
    /\ UNCHANGED <<runVars, loopVars, enrichVars, callVars>>
    /\ UNCHANGED <<footer, pipeVars>>

\* lines 377-398: build_features is about to be called
GerarReachFeatures ==
    /\ pc = "g_cols"
    /\ poi' = EnsureCols(df, poi)
    /\ Len(df) > 0
    /\ pc' = "features"
    /\ UNCHANGED <<CACHE_FILE, calls, reqs>>
    /\ UNCHANGED <<runVars, loopVars, enrichVars, callVars>>
    /\ UNCHANGED <<footer, pipeVars>>

(* ================================ main ================================ *)
\* lines 559-599: read_csv keeps rows whose coordinates are not numbers;
\* cache = load_cache()
StartMain ==
    \E records \in Tables(RawRows), usar \in BOOLEAN :
        /\ runs = 0
        /\ StartRun("main", records, usar)
        /\ pc' = "m_enter"
        /\ cache' = CACHE_FILE
        /\ sess' = "none"
        /\ UNCHANGED <<footer, pipeVars>>

\* the command line is run once more with the same --input and --usar_api
RepeatMain ==
    /\ runs = 1
    /\ prev.entry = "main"
    /\ StartRun("main", prev.df, prev.usar_api)
    /\ pc' = "m_enter"
    /\ cache' = CACHE_FILE
    /\ sess' = "none"
    /\ UNCHANGED <<footer, pipeVars>>

\* lines 600-602: raise SystemExit("Defina GOOGLE_API_KEY ...")
MainNoKeyExit ==
    /\ pc = "m_enter" /\ entry = "main"
    /\ usar_api /\ ~API_KEY
    /\ pc' = "exit"
    /\ UNCHANGED <<CACHE_FILE, poi, calls, reqs>>
    /\ UNCHANGED <<runVars, loopVars, enrichVars, callVars>>
    /\ UNCHANGED <<footer, pipeVars>>

\* lines 603-604
MainEnrichBegin ==
    /\ pc = "m_enter" /\ entry = "main"
    /\ usar_api /\ API_KEY
    /\ sess' = "plain"
    /\ all_new' = <<>>
    /\ i' = 1
    /\ pc' = "m_loop"
    /\ UNCHANGED <<cache, locais_amostra, pois_por_local, excepted>>
    /\ UNCHANGED <<CACHE_FILE, poi, calls, reqs>>
    /\ UNCHANGED <<runVars, enrichVars, callVars>>
    /\ UNCHANGED <<footer, pipeVars>>

\* lines 615-619: usar_api is false: zero columns
MainZeroCols ==
    /\ pc = "m_enter" /\ entry = "main"
    /\ ~usar_api
    /\ poi' = ZeroCols(df, poi)
    /\ pc' = "features"
    /\ UNCHANGED <<CACHE_FILE, calls, reqs>>
    /\ UNCHANGED <<runVars, loopVars, enrichVars, callVars>>
    /\ UNCHANGED <<footer, pipeVars>>

\* lines 605-606: next row of the table
MainLoopNext ==
    /\ pc = "m_loop"
    /\ i <= Len(df)
    /\ EnterEnrichRow
    /\ UNCHANGED <<CACHE_FILE, poi, calls, reqs>>
    /\ UNCHANGED <<runVars, loopVars, callVars>>
    /\ UNCHANGED <<footer, pipeVars>>

\* lines 607-611: write the feats into the row, collect the staged rows
MainBody ==
    /\ pc = "body" /\ entry = "main"
    /\ poi' = SetRow(df, poi, i, results)
    /\ all_new' = all_new \o new_records
    /\ i' = i + 1
    /\ pc' = "m_loop"
    /\ UNCHANGED <<cache, sess, locais_amostra, pois_por_local, excepted>>
    /\ UNCHANGED <<CACHE_FILE, calls, reqs>>
    /\ UNCHANGED <<runVars, enrichVars, callVars>>
    /\ UNCHANGED <<footer, pipeVars>>

\* lines 612-614: write the cache file if anything was staged
MainLoopEnd ==
    /\ pc = "m_loop"
    /\ i > Len(df)
    /\ CACHE_FILE' = SavedFile(CACHE_FILE, cache, all_new)
    /\ pc' = "features"
    /\ UNCHANGED <<poi, calls, reqs>>
    /\ UNCHANGED <<runVars, loopVars, enrichVars, callVars>>
    /\ UNCHANGED <<footer, pipeVars>>

(* ===================== features and end of the run ==================== *)
\* min and max over zero rows raise ValueError (numpy reduction of an
\* empty array)
FeaturesRaise == Len(df) = 0 /\ RawPoiCols(poi) # {}

\* gerar line 398, main line 626: df_feat = build_features(df)
BuildFeatures ==
    /\ pc = "features"
    /\ ~FeaturesRaise
    /\ poi' = build_features(poi)
    /\ pc' = "built"
    /\ UNCHANGED <<CACHE_FILE, calls, reqs>>
    /\ UNCHANGED <<runVars, loopVars, enrichVars, callVars>>
    /\ UNCHANGED <<footer, pipeVars>>

\* main line 626 on a table without rows: the exception leaves main
BuildFeaturesRaise ==
    /\ pc = "features"
    /\ FeaturesRaise
    /\ pc' = "exit"
    /\ UNCHANGED <<CACHE_FILE, poi, calls, reqs>>
    /\ UNCHANGED <<runVars, loopVars, enrichVars, callVars>>
    /\ UNCHANGED <<footer, pipeVars>>

\* the entry point (or the direct call) is left and its locals are gone;
\* another run may start
Finish ==
    /\ pc \in {"built", "returned", "exit", "nc_ret"}
    /\ pc' = "idle"
    /\ prev' = IF entry = "direct" THEN prev
               ELSE [entry |-> entry, df |-> df, usar_api |-> usar_api]
    /\ entry' = "none"
    /\ usar_api' = FALSE
    /\ df' = <<>>
    /\ poi' = EmptyDict
    /\ cache' = <<>>
    /\ sess' = "none"
    /\ locais_amostra' = <<>>
    /\ i' = 1
    /\ pois_por_local' = EmptyDict
    /\ all_new' = <<>>
    /\ excepted' = {}
    /\ k' = 1
    /\ results' = EmptyDict
    /\ new_records' = <<>>
    /\ rowcalls' = 0
    /\ page' = 0 /\ total' = 0 /\ cnt' = 0 /\ hist' = <<>> /\ sleeps' = <<>>
    /\ calls' = 0
    /\ reqs' = 0
    /\ file0' = CACHE_FILE
    /\ UNCHANGED <<API_KEY, CACHE_FILE, runs>>
    /\ UNCHANGED <<footer, pipeVars>>

Next ==
    \/ CallNearbyCount
    \/ NearbyNoKey \/ NearbyBegin
    \/ NearbyStatusRetry \/ NearbyStatusGiveUp
    \/ NearbyHttpError \/ NearbyBadBody
    \/ NearbyOverQueryLimit \/ NearbyApiError \/ NearbyOk
    \/ NearbyTimeoutRetry \/ NearbyTimeoutGiveUp
    \/ NearbyRequestException
    \/ EnrichRowParsed \/ EnrichRowExcept
    \/ EnrichCacheHit \/ EnrichCacheMiss
    \/ EnrichRowReturn
    \/ StartGerar \/ RepeatGerar
    \/ GerarEnrichBegin \/ GerarSkipNoKey \/ GerarSkipDisabled
    \/ GerarLoopNext \/ GerarBody \/ GerarBodyExcept \/ GerarLoopEnd
    \/ GerarEmpty \/ GerarReachFeatures
    \/ StartMain \/ RepeatMain \/ MainNoKeyExit \/ MainEnrichBegin \/ MainZeroCols
    \/ MainLoopNext \/ MainBody \/ MainLoopEnd
    \/ BuildFeatures \/ BuildFeaturesRaise
    \/ Finish

Spec == Init /\ [][Next]_vars

(* ====================== nearby_count called alone ===================== *)
\* a step of nearby_count
NearbyStep ==
    \/ NearbyNoKey \/ NearbyBegin
    \/ NearbyStatusRetry \/ NearbyStatusGiveUp
    \/ NearbyHttpError \/ NearbyBadBody
    \/ NearbyOverQueryLimit \/ NearbyApiError \/ NearbyOk
    \/ NearbyTimeoutRetry \/ NearbyTimeoutGiveUp
    \/ NearbyRequestException

NearbyCallNext ==
    \/ CallNearbyCount
    \/ NearbyNoKey \/ NearbyBegin
    \/ NearbyStatusRetry \/ NearbyStatusGiveUp
    \/ NearbyHttpError \/ NearbyBadBody
    \/ NearbyOverQueryLimit \/ NearbyApiError \/ NearbyOk
    \/ NearbyTimeoutRetry \/ NearbyTimeoutGiveUp
    \/ NearbyRequestException

\* one call of nearby_count with a session of either kind; session.get
\* returns or raises within its timeout and the sleeps end, so a call that
\* can take a step takes one
NearbyCallSpec == Init /\ [][NearbyCallNext]_vars /\ WF_vars(NearbyStep)

(* ================= save_cache, one write at a time ==================== *)
\* lines 357-370: propagate; save_cache is called if anything was staged
GerarPropagate ==
    /\ pc = "g_loop"
    /\ i > Len(locais_amostra)
    /\ poi' = Propagate(df, poi, pois_por_local)
    /\ pc' = IF all_new # <<>> THEN "sv_open" ELSE "g_cols"
    /\ UNCHANGED <<CACHE_FILE, calls, reqs>>
    /\ UNCHANGED <<runVars, loopVars, enrichVars, callVars>>
    /\ UNCHANGED <<footer, pipeVars>>

\* line 62: df.to_parquet(CACHE_PATH) opens the cache file itself for
\* writing, which empties it
SaveOpen ==
    /\ pc = "sv_open"
    /\ CACHE_FILE' = <<>>
    /\ footer' = FALSE
    /\ pc' = "sv_write"
    /\ UNCHANGED <<poi, calls, reqs>>
    /\ UNCHANGED <<runVars, loopVars, enrichVars, callVars, pipeVars>>

\* line 371: the table written is pd.concat([cache, pd.DataFrame(all_new)])
Merged == cache \o all_new

\* line 62: the next row of the merged table reaches the file
SaveWrite ==
    /\ pc = "sv_write"
    /\ Len(CACHE_FILE) < Len(Merged)
    /\ CACHE_FILE' = Append(CACHE_FILE, Merged[Len(CACHE_FILE) + 1])
    /\ UNCHANGED <<pc, poi, calls, reqs, footer>>
    /\ UNCHANGED <<runVars, loopVars, enrichVars, callVars, pipeVars>>

\* line 62: the writer is closed: the footer is written after the rows
SaveClose ==
    /\ pc = "sv_write"
    /\ Len(CACHE_FILE) = Len(Merged)
    /\ footer' = TRUE
    /\ pc' = "g_cols"
    /\ UNCHANGED <<CACHE_FILE, poi, calls, reqs>>
    /\ UNCHANGED <<runVars, loopVars, enrichVars, callVars, pipeVars>>

\* the process is killed (or interrupted from the keyboard, which
\* `except Exception` of line 493 does not catch) during line 62
SaveInterrupted ==
    /\ pc \in {"sv_open", "sv_write"}
    /\ pc' = "killed"
    /\ UNCHANGED <<CACHE_FILE, poi, calls, reqs>>
    /\ UNCHANGED <<runVars, loopVars, enrichVars, callVars>>
    /\ UNCHANGED <<footer, pipeVars>>

\* line 62 raises while writing (no space left, I/O error); lines 493-497
\* catch it and gerar_regioes_ideais returns []
SaveRaises ==
    /\ pc = "sv_write"
    /\ pc' = "returned"
    /\ UNCHANGED <<CACHE_FILE, poi, calls, reqs>>
    /\ UNCHANGED <<runVars, loopVars, enrichVars, callVars>>
    /\ caught' = TRUE
    /\ UNCHANGED footer
    /\ UNCHANGED <<nicho, filtros, df_filtrado, df_feat, n_clusters, labels,
                   peso, ranking, regioes, fits, columns, error>>

\* the killed process is gone
ProcessGone ==
    /\ pc = "killed"
    /\ pc' = "exit"
    /\ UNCHANGED <<CACHE_FILE, poi, calls, reqs>>
    /\ UNCHANGED <<runVars, loopVars, enrichVars, callVars>>
    /\ UNCHANGED <<footer, pipeVars>>

\* lines 333, 58: pd.read_parquet raises on a file without footer; lines
\* 493-497 catch it and gerar_regioes_ideais returns []
LoadCacheRaises ==
    /\ pc = "g_enter" /\ entry = "gerar"
    /\ usar_api /\ API_KEY
    /\ ~footer
    /\ pc' = "returned"
    /\ UNCHANGED <<CACHE_FILE, poi, calls, reqs>>
    /\ UNCHANGED <<runVars, loopVars, enrichVars, callVars>>
    /\ caught' = TRUE
    /\ UNCHANGED footer
    /\ UNCHANGED <<nicho, filtros, df_filtrado, df_feat, n_clusters, labels,
                   peso, ranking, regioes, fits, columns, error>>

SaveNext ==
    \/ NearbyBegin
    \/ NearbyHttpError \/ NearbyBadBody
    \/ NearbyOverQueryLimit \/ NearbyApiError \/ NearbyOk
    \/ NearbyTimeoutRetry \/ NearbyTimeoutGiveUp
    \/ NearbyRequestException
    \/ EnrichRowParsed
    \/ EnrichCacheHit \/ EnrichCacheMiss
    \/ EnrichRowReturn
    \/ StartGerar \/ RepeatGerar
    \/ GerarEnrichBegin \/ LoadCacheRaises
    \/ GerarSkipNoKey \/ GerarSkipDisabled
    \/ GerarLoopNext \/ GerarBody \/ GerarBodyExcept
    \/ GerarPropagate
    \/ SaveOpen \/ SaveWrite \/ SaveClose
    \/ SaveInterrupted \/ SaveRaises \/ ProcessGone
    \/ GerarEmpty \/ GerarReachFeatures
    \/ BuildFeatures
    \/ Finish

\* the enrichment of gerar_regioes_ideais with the write of the cache file
\* taken one step at a time
SaveSpec == Init /\ [][SaveNext]_vars

(* ================== enrichment of a table of many cells =============== *)
\* width of a (lat_round, lon_round) cell: 0.01 degree
CellWidth == 100000

\* tables of n records that visit m cells in turn: record r lies in cell
\* ((r - 1) mod m) + 1, cell 1 being the cell of the documented location,
\* and no two records have the same coordinates
CellTurns == {1, 3, max_locais_cap, max_locais_cap + 1, max_locais_cap + 2}

ManyCells(n, m) ==
    [r \in 1..n |->
        [lat |-> Scenario.lat + ((r - 1) % m) * CellWidth + (r - 1) * 10,
         lon |-> Scenario.lon,
         numeric |-> TRUE]]

SampleTables == {ManyCells(n, m) : n \in 0..MaxRows, m \in CellTurns}

\* the places the service knows near a location: the same answer every
\* time it is asked
PlacesNear(row, tp) ==
    (Round2(row.lat) - Round2(Scenario.lat) + (IF tp = "gym" THEN 1 ELSE 0))
        % (MaxResults + 1)

\* gerar_regioes_ideais(produto, {"usar_api": True}) on such a table
StartGerarManyCells ==
    \E records \in SampleTables :
        /\ runs = 0
        /\ StartRun("gerar", records, TRUE)
        /\ pc' = "g_enter"
        /\ cache' = <<>>
        /\ sess' = "none"
        /\ UNCHANGED <<footer, pipeVars>>

\* lines 96-125 when the service is up: the answer is 200 with status OK or
\* ZERO_RESULTS and the places near the location
NearbyOkServiceUp ==
    /\ NearbyOk
    /\ new_records'[Len(new_records')].count = PlacesNear(CurRow, Triples[k].tp)

SampleInit == Init /\ API_KEY

SampleNext ==
    \/ StartGerarManyCells
    \/ GerarEnrichBegin
    \/ GerarLoopNext
    \/ EnrichRowParsed
    \/ EnrichCacheHit \/ EnrichCacheMiss
    \/ NearbyBegin \/ NearbyOkServiceUp
    \/ EnrichRowReturn
    \/ GerarBody
    \/ GerarLoopEnd
    \/ GerarEmpty \/ GerarReachFeatures
    \/ BuildFeatures
    \/ Finish

\* the enrichment of gerar_regioes_ideais on tables of up to MaxRows
\* records, with the credential set and the service up
SampleSpec == SampleInit /\ [][SampleNext]_vars

(* ================= build_features: class and business type ============ *)
\* line 44
CLASSE_ORD == [A |-> 5, B |-> 4, C |-> 3, D |-> 2, E |-> 1]

\* str.upper() on the strings of the sample tables
UpperOf ==
    [a |-> "A", b |-> "B", e |-> "E", nan |-> "NAN",
     Mercado |-> "MERCADO", academia |-> "ACADEMIA", Academia |-> "ACADEMIA",
     Centro |-> "CENTRO", centro |-> "CENTRO"]

Upper(str) == IF str \in DOMAIN UpperOf THEN UpperOf[str] ELSE str

\* astype(str): a missing value becomes the string "nan"
AsStr(cell) == IF cell = NaN THEN "nan" ELSE cell[1]

\* line 202: .astype(str).str.upper().map(CLASSE_ORD).fillna(0).astype(int)
classe_ord_NoUpper(cell) ==
    IF AsStr(cell) \in DOMAIN CLASSE_ORD THEN CLASSE_ORD[AsStr(cell)] ELSE 0

classe_ord(cell) ==
    IF Upper(AsStr(cell)) \in DOMAIN CLASSE_ORD
    THEN CLASSE_ORD[Upper(AsStr(cell))] ELSE 0

\* the POI columns of the rows `rows` of a table
TakeRows(cols, rows) ==
    [c \in DOMAIN cols |-> [j \in DOMAIN rows |-> cols[c][rows[j]]]]

\* lines 199-225: build_features on the rows `rows` of the table
Features(table, cols, rows) ==
    [classe_ord |-> [j \in DOMAIN rows |-> classe_ord(table[rows[j]].classe)],
     tipo_comercial |->
         [j \in DOMAIN rows |-> Upper(AsStr(table[rows[j]].tipo_comercial))],
     cols |-> build_features(TakeRows(cols, rows))]

(* -------------------- build_features called on its own ---------------- *)
\* values of the classe column: the five classes, lower case, padded,
\* unknown, missing
ClasseValues ==
    {Val(x) : x \in {"A", "B", "C", "D", "E", "a", "e", "X", " A"}} \cup {NaN}

\* values of a POI column: a count or missing
CountValues == {Val(n) : n \in 0..MaxCount} \cup {NaN}

\* records that differ in their class, and records that differ in their
\* POI count
FeatureRows ==
    [lat : {Scenario.lat}, lon : {Scenario.lon}, numeric : {TRUE},
     classe : ClasseValues, tipo_comercial : {Val("Mercado")},
     gym : {Val(0)}, supermarket : {Val(0)}]
    \cup
    [lat : {Scenario.lat}, lon : {Scenario.lon}, numeric : {TRUE},
     classe : {Val("A")}, tipo_comercial : {Val("Mercado")},
     gym : CountValues, supermarket : {Val(0)}]

FeatureTables == UNION {[1..n -> FeatureRows] : n \in 0..MaxFeatRows}

\* the POI columns of a table whose records carry the cell of each label
GivenCols(table) ==
    [c \in AllPoiCols |-> [r \in 1..Len(table) |-> table[r][c[2]]]]

\* no enrichment is under way
EnrichReset ==
    /\ cache = <<>>
    /\ sess = "none"
    /\ locais_amostra = <<>>
    /\ i = 1
    /\ pois_por_local = EmptyDict
    /\ all_new = <<>>
    /\ k = 1
    /\ results = EmptyDict
    /\ new_records = <<>>
    /\ page = 0
    /\ total = 0
    /\ cnt = 0
    /\ hist = <<>>
    /\ sleeps = <<>>
    /\ calls = 0
    /\ rowcalls = 0
    /\ reqs = 0
    /\ file0 = <<>>
    /\ prev = NoPrev
    /\ excepted = {}
    /\ footer = TRUE

FeatureInit ==
    /\ API_KEY = FALSE
    /\ CACHE_FILE = <<>>
    /\ runs = 1
    /\ entry = "direct"
    /\ pc = "features"
    /\ usar_api = FALSE
    /\ df \in FeatureTables
    /\ poi = GivenCols(df)
    /\ EnrichReset
    /\ PipeReset

\* everything but the position and the feature table
restVars == <<API_KEY, CACHE_FILE, runs, entry, usar_api, df, poi, cache, sess,
              locais_amostra, i, pois_por_local, all_new, k, results,
              new_records, page, total, cnt, hist, sleeps, calls, rowcalls,
              reqs, file0, prev, excepted, footer, caught, columns, error>>

\* df_feat, num_cols, cat_cols = build_features(df) on a table with rows
BuildFeaturesCall ==
    /\ pc = "features"
    /\ ~FeaturesRaise
    /\ df_feat' = Features(df, poi, [j \in 1..Len(df) |-> j])
    /\ pc' = "built"
    /\ UNCHANGED restVars
    /\ UNCHANGED <<nicho, filtros, df_filtrado, n_clusters, labels, peso,
                   ranking, regioes, fits>>

\* lines 211-213 on a table without rows: ValueError
BuildFeaturesCallRaises ==
    /\ pc = "features"
    /\ FeaturesRaise
    /\ pc' = "exit"
    /\ UNCHANGED restVars
    /\ UNCHANGED pipeVars

FeatureNext == BuildFeaturesCall \/ BuildFeaturesCallRaises

\* build_features applied to every table of up to MaxFeatRows records
FeatureSpec == FeatureInit /\ [][FeatureNext]_vars

(* ============ gerar_regioes_ideais after the enrichment =============== *)
\* Python's None
None == <<>>

\* sample clients as the data loader delivers them (class A..E in upper
\* case), with the POI cells the enrichment gave them
Clientes ==
    LET C(j, classe, tipo, bairro, gym, supermarket) ==
            [lat |-> Scenario.lat + j * 10, lon |-> Scenario.lon,
             numeric |-> TRUE, classe |-> Val(classe),
             tipo_comercial |-> Val(tipo), bairro |-> bairro,
             gym |-> gym, supermarket |-> supermarket]
    IN  << C(0, "A", "ACADEMIA", Val("CENTRO"), Val(2), Val(1)),
           C(1, "B", "ACADEMIA", Val("Centro"), Val(1), Val(0)),
           C(2, "C", "ACADEMIA", Val("ALDEOTA"), Val(0), Val(0)),
           C(3, "B", "Mercado", Val("ALDEOTA"), Val(1), Val(3)),
           C(4, "E", "Mercado", NaN, NaN, NaN) >>

\* line 238-248, the weights in tenths (accents of the keys left out)
pesos ==
    [Infantil |-> <<8, 2>>, Fitness |-> <<7, 3>>, Escolar |-> <<7, 3>>,
     Alimentacao |-> <<6, 4>>, Farmacia |-> <<6, 4>>, Beleza |-> <<5, 5>>,
     Pet |-> <<7, 3>>, Eletronicos |-> <<6, 4>>, Outro |-> <<6, 4>>]

\* the calls gerar_regioes_ideais(produto, filtros, nicho) examined: every
\* table of up to MaxClients sample clients without filter; the table of
\* all sample clients under every sample filter and niche (one of them
\* unknown to the weight table); tables of up to MaxN records in which
\* every third is one client and the others are another
PipelineInputs ==
    LET rows == {Clientes[j] : j \in DOMAIN Clientes}
        sample_filtros ==
            [classe : {{}, {"A", "B"}, {"C"}},
             tipo : {"", "academia"},
             bairro : {{}, {"centro"}, {"Meireles"}}]
        nichos == (DOMAIN pesos) \cup {"Moda"}
    IN  {[table |-> t, usar |-> u, filtros |-> NoFiltros, nicho |-> "Fitness"] :
            t \in UNION {[1..n -> rows] : n \in 0..MaxClients}, u \in BOOLEAN}
        \cup
        {[table |-> Clientes, usar |-> u, filtros |-> f, nicho |-> n] :
            u \in BOOLEAN, f \in sample_filtros, n \in nichos}
        \cup
        {[table |-> [r \in 1..n |-> IF r % 3 = 0 THEN Clientes[4]
                                    ELSE Clientes[1]],
          usar |-> u, filtros |-> NoFiltros, nicho |-> "Outro"] :
            n \in 1..MaxN, u \in BOOLEAN}

\* the state at line 384: the table is loaded and its POI columns are the
\* enrichment's, or zero when the enrichment was not asked for
PipelineInit ==
    \E inp \in PipelineInputs :
        /\ API_KEY = TRUE
        /\ CACHE_FILE = <<>>
        /\ runs = 1
        /\ entry = "gerar"
        /\ pc = "g_filter"
        /\ usar_api = inp.usar
        /\ df = inp.table
        /\ poi = IF inp.usar THEN GivenCols(inp.table)
                 ELSE ZeroCols(inp.table, EmptyDict)
        /\ EnrichReset
        /\ nicho = inp.nicho
        /\ filtros = inp.filtros
        /\ df_filtrado = <<>>
        /\ df_feat = NoFeat
        /\ n_clusters = 0
        /\ labels = <<>>
        /\ peso = <<>>
        /\ ranking = <<>>
        /\ regioes = <<>>
        /\ fits = 0
        /\ caught = FALSE
        /\ columns = {}
        /\ error = <<>>

\* lines 385-392: the three filters; .str.upper() of a missing value is
\* missing and matches nothing
KeepRow_All(row, f) == TRUE

KeepRow(row, f) ==
    /\ f.classe = {} \/ (row.classe # NaN /\ row.classe[1] \in f.classe)
    /\ f.tipo = "" \/ (/\ row.tipo_comercial # NaN
                       /\ Upper(row.tipo_comercial[1]) = Upper(f.tipo))
    /\ f.bairro = {} \/ (/\ row.bairro # NaN
                         /\ Upper(row.bairro[1]) \in {Upper(b) : b \in f.bairro})

\* line 391: df_filtrado["bairro"] raises KeyError when a neighbourhood
\* filter is given and the table has no such column
FilterRaises(table, f) ==
    f.bairro # {} /\ \E r \in 1..Len(table) : "bairro" \notin DOMAIN table[r]

\* the index labels of the rows that the filters keep, in table order
Filtered(table, f) ==
    SelectSeq([r \in 1..Len(table) |-> r], LAMBDA r : KeepRow(table[r], f))

\* line 406: n_clusters = min(4, max(2, len(df_feat) // 30))
NClusters_Three(n) == 3

NClusters_NoFloor(n) == Min(4, n \div 30)

NClusters(n) == Min(4, IF n \div 30 >= 2 THEN n \div 30 ELSE 2)

\* line 407: if len(df_feat) < n_clusters
Bypassed_Never(n) == FALSE

Bypassed_BelowMost(n) == n < 4

Bypassed(n) == n < NClusters(n)

\* lines 415, 480: row.get("bairro", "Desconhecido"); bairro is not one of
\* the columns the data loader requires
BairroOf(row) ==
    IF "bairro" \in DOMAIN row THEN row.bairro ELSE Val("Desconhecido")

\* lines 409-421: the first 10 rows of df_feat as they are
RawRegions(table, rows) ==
    [j \in 1..Min(10, Len(rows)) |->
        [idx |-> rows[j],
         lat |-> table[rows[j]].lat,
         lon |-> table[rows[j]].lon,
         nome |-> BairroOf(table[rows[j]]),
         motivo |-> [kind |-> "poucos_dados"],
         cluster |-> None, score |-> None,
         classe_med |-> None, poi_med |-> None]]

\* lines 399-404, 230-234, 423: km.labels_. StandardScaler and the one-hot
\* encoder give equal rows equal vectors, and KMeans labels a row by its
\* nearest centre, so equal rows get one label; it uses n_clusters labels
\* when that many rows differ. Which rows share a cluster is left open.
KMeansLabels(feat, kk) ==
    LET n == Len(feat.classe_ord)
        vector(j) == <<feat.classe_ord[j], feat.tipo_comercial[j],
                       [c \in DOMAIN feat.cols |-> feat.cols[c][j]]>>
        vectors == {vector(j) : j \in 1..n}
    IN  {[j \in 1..n |-> g[vector(j)]] :
            g \in {h \in [vectors -> 0..(kk - 1)] :
                      Cardinality({h[v] : v \in vectors})
                          = Min(kk, Cardinality(vectors))}}

\* line 249: pesos.get(nicho, (0.6, 0.4))
get_pesos_score_por_nicho_NoDefault(n) ==
    IF n \in DOMAIN pesos THEN pesos[n] ELSE <<5, 5>>

get_pesos_score_por_nicho(n) ==
    IF n \in DOMAIN pesos THEN pesos[n] ELSE <<6, 4>>

\* exact fractions [num, den] stand for the floats of the code
RECURSIVE GCD(_, _)
GCD(a, b) == IF b = 0 THEN a ELSE GCD(b, a % b)

\* a fraction in lowest terms, so that the numbers stay small
Lowest(f) ==
    IF f.num = 0 THEN [num |-> 0, den |-> 1]
    ELSE [num |-> f.num \div GCD(f.num, f.den), den |-> f.den \div GCD(f.num, f.den)]

FracAdd(a, b) ==
    Lowest([num |-> a.num * b.den + b.num * a.den, den |-> a.den * b.den])

\* sum of the fractions f[x] for x in S
RECURSIVE FracSum(_, _)
FracSum(f, S) ==
    IF S = {} THEN [num |-> 0, den |-> 1]
    ELSE LET x == CHOOSE y \in S : TRUE
             rest == FracSum(f, S \ {x})
         IN  FracAdd(f[x], rest)

\* line 268: peso_poi*poi_med + peso_classe*(classe_med/5.0), the weights
\* in tenths
score_potencial_ClasseUnscaled(w, poi_med, classe_med) ==
    FracAdd([num |-> w[1] * poi_med.num, den |-> 10 * poi_med.den],
            [num |-> w[2] * classe_med.num, den |-> 10 * classe_med.den])

score_potencial(w, poi_med, classe_med) ==
    FracAdd([num |-> w[1] * poi_med.num, den |-> 10 * poi_med.den],
            [num |-> w[2] * classe_med.num, den |-> 10 * 5 * classe_med.den])

\* lines 253-268: one row per cluster label, in label order (groupby):
\* classe_med, poi_med and score_potencial
ClusterRows(feat, l, w) ==
    LET norm_cols == {c \in DOMAIN feat.cols : Len(c) = 4}
        members(c) == {j \in DOMAIN l : l[j] = c}
        times(v, m) == [num |-> v.num * m, den |-> v.den]
        \* the mean over the members, equal values taken together
        mean(vals, c) ==
            LET V == {vals[j] : j \in members(c)}
                t == FracSum([v \in V |->
                                 times(v, Cardinality({j \in members(c) :
                                                          vals[j] = v}))], V)
            IN  Lowest([num |-> t.num, den |-> t.den * Cardinality(members(c))])
        classe_med(c) ==
            mean([j \in DOMAIN l |-> [num |-> feat.classe_ord[j], den |-> 1]], c)
        col_mean(col, c) ==
            mean([j \in DOMAIN l |-> feat.cols[col][j][1]], c)
        poi_med(c) ==
            IF norm_cols = {} THEN [num |-> 0, den |-> 1]
            ELSE LET t == FracSum([col \in norm_cols |-> col_mean(col, c)],
                                  norm_cols)
                 IN  Lowest([num |-> t.num, den |-> t.den * Cardinality(norm_cols)])
        score(c) == score_potencial(w, poi_med(c), classe_med(c))
    IN  [c \in {l[j] : j \in DOMAIN l} |->
            [cluster |-> c, classe_med |-> classe_med(c),
             poi_med |-> poi_med(c), score_potencial |-> score(c)]]

\* lines 269-271: sort_values("score_potencial", ascending=False) with the
\* default kind (quicksort), which is not a stable sort: rows of equal
\* score come in any order; then ordem = 1..N
rank_clusters(feat, l, w) ==
    LET rows == ClusterRows(feat, l, w)
        N == Cardinality(DOMAIN rows)
        less(a, b) == a.num * b.den < b.num * a.den
        sorted(o) ==
            /\ \A a, b \in 1..N : a # b => o[a] # o[b]
            /\ \A a, b \in 1..N :
                   a < b => ~less(rows[o[a]].score_potencial,
                                  rows[o[b]].score_potencial)
    IN  {[a \in 1..N |->
            [cluster |-> o[a],
             classe_med |-> rows[o[a]].classe_med,
             poi_med |-> rows[o[a]].poi_med,
             score_potencial |-> rows[o[a]].score_potencial,
             ordem |-> a]] :
         o \in {x \in [1..N -> DOMAIN rows] : sorted(x)}}

\* lines 435-475: the POIs of a row of df_feat: for each label the sum of
\* int(float(row[c])) over its columns, the labels with a positive sum
\* under their display names, sorted by sum (descending, stable), first 3
TopPois(feat, j) ==
    LET valor(a) ==
            FracSum([b \in 1..Len(RADII) |->
                        [num |-> feat.cols[PoiCol(PLACES_LABELS[a], RADII[b])][j][1],
                         den |-> 1]],
                    1..Len(RADII)).num
        traducoes == [gym |-> "Academias", supermarket |-> "Supermercados"]
        found == {a \in DOMAIN PLACES_LABELS : valor(a) > 0}
        place(a) == 1 + Cardinality({b \in found :
                        \/ valor(b) > valor(a)
                        \/ valor(b) = valor(a) /\ b < a})
    IN  [p \in 1..Min(3, Cardinality(found)) |->
            LET a == CHOOSE x \in found : place(x) = p
            IN  [nome |-> traducoes[PLACES_LABELS[a]], qtd |-> valor(a)]]

\* lines 427-492: for the clusters from place p of the ranking on, the
\* first 10 rows of each cluster in the order of df_feat
RECURSIVE RegionsFrom(_, _, _, _, _, _)
RegionsFrom(table, rows, feat, l, rk, p) ==
    IF p > Len(rk) THEN <<>>
    ELSE LET subset == SelectSeq([j \in DOMAIN l |-> j],
                                 LAMBDA j : l[j] = rk[p].cluster)
             region(j) ==
                 [idx |-> rows[j],
                  lat |-> table[rows[j]].lat,
                  lon |-> table[rows[j]].lon,
                  nome |-> <<BairroOf(table[rows[j]]), rk[p].cluster + 1>>,
                  motivo |-> [kind |-> "cluster",
                              ordem |-> rk[p].ordem,
                              classe_med |-> rk[p].classe_med,
                              score_potencial |-> rk[p].score_potencial,
                              pois |-> TopPois(feat, j)],
                  cluster |-> Val(rk[p].cluster),
                  score |-> Val(rk[p].score_potencial),
                  classe_med |-> Val(rk[p].classe_med),
                  poi_med |-> Val(rk[p].poi_med)]
             head == HeadRows(subset, 10)
         IN  [m \in 1..Len(head) |-> region(head[m])]
                 \o RegionsFrom(table, rows, feat, l, rk, p + 1)

\* lines 384-393
ApplyFilters ==
    /\ pc = "g_filter"
    /\ ~FilterRaises(df, filtros)
    /\ df_filtrado' = Filtered(df, filtros)
    /\ pc' = "g_filtered"
    /\ UNCHANGED restVars
    /\ UNCHANGED <<nicho, filtros, df_feat, n_clusters, labels, peso, ranking,
                   regioes, fits>>

GerarNoRecords_AfterClustering ==
    /\ pc = "g_filtered"
    /\ Len(df_filtrado) = 0
    /\ n_clusters' = NClusters(0)
    /\ fits' = fits + 1
    /\ regioes' = <<>>
    /\ pc' = "returned"
    /\ UNCHANGED restVars
    /\ UNCHANGED <<nicho, filtros, df_filtrado, df_feat, labels, peso, ranking>>

\* lines 394-396: nothing left: return []
GerarNoRecords ==
    /\ pc = "g_filtered"
    /\ Len(df_filtrado) = 0
    /\ regioes' = <<>>
    /\ pc' = "returned"
    /\ UNCHANGED restVars
    /\ UNCHANGED <<nicho, filtros, df_filtrado, df_feat, n_clusters, labels,
                   peso, ranking, fits>>

\* line 398: df_feat, num_cols, cat_cols = build_features(df_filtrado)
GerarBuildFeatures ==
    /\ pc = "g_filtered"
    /\ Len(df_filtrado) > 0
    /\ df_feat' = Features(df, poi, df_filtrado)
    /\ pc' = "g_count"
    /\ UNCHANGED restVars
    /\ UNCHANGED <<nicho, filtros, df_filtrado, n_clusters, labels, peso,
                   ranking, regioes, fits>>

\* lines 406-421: fewer rows than clusters: the rows are returned as they are
GerarBypass ==
    /\ pc = "g_count"
    /\ n_clusters' = NClusters(Len(df_feat.classe_ord))
    /\ Bypassed(Len(df_feat.classe_ord))
    /\ regioes' = RawRegions(df, df_filtrado)
    /\ pc' = "returned"
    /\ UNCHANGED restVars
    /\ UNCHANGED <<nicho, filtros, df_filtrado, df_feat, labels, peso, ranking,
                   fits>>

\* lines 406-407, 422-423: km = fit_kmeans(X, n_clusters); labels = km.labels_
GerarFitKMeans ==
    /\ pc = "g_count"
    /\ n_clusters' = NClusters(Len(df_feat.classe_ord))
    /\ ~Bypassed(Len(df_feat.classe_ord))
    /\ labels' \in KMeansLabels(df_feat, NClusters(Len(df_feat.classe_ord)))
    /\ fits' = fits + 1
    /\ pc' = "g_rank"
    /\ UNCHANGED restVars
    /\ UNCHANGED <<nicho, filtros, df_filtrado, df_feat, peso, ranking, regioes>>

\* line 424: ranking = rank_clusters(df_feat, labels, nicho)
GerarRank ==
    /\ pc = "g_rank"
    /\ peso' = get_pesos_score_por_nicho(nicho)
    /\ ranking' \in rank_clusters(df_feat, labels, get_pesos_score_por_nicho(nicho))
    /\ pc' = "g_regions"
    /\ UNCHANGED restVars
    /\ UNCHANGED <<nicho, filtros, df_filtrado, df_feat, n_clusters, labels,
                   regioes, fits>>

\* lines 427-492: return regioes
GerarRegions ==
    /\ pc = "g_regions"
    /\ regioes' = RegionsFrom(df, df_filtrado, df_feat, labels, ranking, 1)
    /\ pc' = "returned"
    /\ UNCHANGED restVars
    /\ UNCHANGED <<nicho, filtros, df_filtrado, df_feat, n_clusters, labels,
                   peso, ranking, fits>>

PipelineNext ==
    \/ ApplyFilters
    \/ GerarNoRecords \/ GerarBuildFeatures
    \/ GerarBypass \/ GerarFitKMeans
    \/ GerarRank
    \/ GerarRegions

\* gerar_regioes_ideais from the filters to the returned list
PipelineSpec == PipelineInit /\ [][PipelineNext]_vars

(* ===================== rank_clusters called alone ===================== *)
\* rank_clusters(df_feat, labels, nicho) on the feature table of up to
\* MaxClients sample clients, with their POI columns or with none, any
\* labels 0 and 1, and a niche with weights (0.7, 0.3), (0.5, 0.5) or
\* unknown
RankInit ==
    \E t \in UNION {[1..n -> {Clientes[j] : j \in DOMAIN Clientes}] :
                       n \in 1..MaxClients} :
        /\ API_KEY = FALSE
        /\ CACHE_FILE = <<>>
        /\ runs = 1
        /\ entry = "direct"
        /\ pc = "g_rank"
        /\ usar_api = FALSE
        /\ df = t
        /\ poi \in {GivenCols(t), EmptyDict}
        /\ EnrichReset
        /\ nicho \in {"Fitness", "Beleza", "Moda"}
        /\ filtros = NoFiltros
        /\ df_filtrado = [j \in 1..Len(t) |-> j]
        /\ df_feat = Features(t, poi, df_filtrado)
        /\ n_clusters = 2
        /\ labels \in [1..Len(t) -> {0, 1}]
        /\ peso = <<>>
        /\ ranking = <<>>
        /\ regioes = <<>>
        /\ fits = 0
        /\ caught = FALSE
        /\ columns = {}
        /\ error = <<>>

RankNext == GerarRank

RankSpec == RankInit /\ [][RankNext]_vars

(* ================= gerar_regioes_ideais, the whole call ================ *)
\* most records of a table of a whole call
MaxLocais == 3

\* records in two cells, with the columns of the data loader; the
\* neighbourhood column is there or not, for the whole table
GerarRows ==
    LET R(j, m, classe, tipo, bairro) ==
            [lat |-> Scenario.lat + m * CellWidth + j * 10, lon |-> Scenario.lon,
             numeric |-> TRUE, classe |-> Val(classe),
             tipo_comercial |-> Val(tipo), bairro |-> Val(bairro)]
    IN  {R(0, 0, "A", "ACADEMIA", "CENTRO"),
         R(1, 1, "B", "Mercado", "ALDEOTA"),
         R(2, 0, "C", "Academia", "Centro")}

GerarTables ==
    LET without(row) == [f \in (DOMAIN row) \ {"bairro"} |-> row[f]]
    IN  UNION {[1..n -> GerarRows] \cup [1..n -> {without(r) : r \in GerarRows}] :
                  n \in 0..MaxLocais}

GerarFiltros ==
    {NoFiltros,
     [classe |-> {"B"}, tipo |-> "", bairro |-> {}],
     [classe |-> {}, tipo |-> "academia", bairro |-> {}],
     [classe |-> {}, tipo |-> "", bairro |-> {"centro"}]}

\* gerar_regioes_ideais(produto, filtros, "Fitness") is called with the
\* credential set; the cache file is one of the sample files, whole or
\* without its footer
GerarInit ==
    /\ API_KEY = TRUE
    /\ CACHE_FILE \in InitialFiles
    /\ runs = 1
    /\ entry = "gerar"
    /\ pc = "g_enter"
    /\ usar_api \in BOOLEAN
    /\ df \in GerarTables
    /\ poi = EmptyDict
    /\ cache = <<>>
    /\ sess = "none"
    /\ locais_amostra = <<>>
    /\ i = 1
    /\ pois_por_local = EmptyDict
    /\ all_new = <<>>
    /\ k = 1
    /\ results = EmptyDict
    /\ new_records = <<>>
    /\ page = 0 /\ total = 0 /\ cnt = 0 /\ hist = <<>> /\ sleeps = <<>>
    /\ calls = 0
    /\ rowcalls = 0
    /\ reqs = 0
    /\ file0 = CACHE_FILE
    /\ prev = NoPrev
    /\ excepted = {}
    /\ footer \in BOOLEAN
    /\ nicho = "Fitness"
    /\ filtros \in GerarFiltros
    /\ df_filtrado = <<>>
    /\ df_feat = NoFeat
    /\ n_clusters = 0
    /\ labels = <<>>
    /\ peso = <<>>
    /\ ranking = <<>>
    /\ regioes = <<>>
    /\ fits = 0
    /\ caught = FALSE
    /\ columns = {}
    /\ error = <<>>

\* lines 377-382: if the table has no POI column, create them all, zero
GerarEnsureCols ==
    /\ pc = "g_cols"
    /\ poi' = EnsureCols(df, poi)
    /\ pc' = "g_filter"
    /\ UNCHANGED <<CACHE_FILE, calls, reqs>>
    /\ UNCHANGED <<runVars, loopVars, enrichVars, callVars>>
    /\ UNCHANGED <<footer, pipeVars>>

\* lines 390-392: the neighbourhood filter raises KeyError
ApplyFiltersRaises ==
    /\ pc = "g_filter"
    /\ FilterRaises(df, filtros)
    /\ pc' = "g_except"
    /\ UNCHANGED restVars
    /\ UNCHANGED <<nicho, filtros, df_filtrado, df_feat, n_clusters, labels,
                   peso, ranking, regioes, fits, columns, error>>

\* lines 430-492: a statement of the synthesis raises when only the first
\* regions have been appended to the list
GerarRegionsRaises ==
    /\ pc = "g_regions"
    /\ \E m \in 0..(Len(RegionsFrom(df, df_filtrado, df_feat, labels, ranking, 1)) - 1) :
           regioes' = SubSeq(RegionsFrom(df, df_filtrado, df_feat, labels,
                                         ranking, 1), 1, m)
    /\ pc' = "g_except"
    /\ UNCHANGED restVars
    /\ UNCHANGED <<nicho, filtros, df_filtrado, df_feat, n_clusters, labels,
                   peso, ranking, fits>>

\* lines 493-497: except Exception: ... return []
GerarHandler_ReturnsList ==
    /\ pc = "g_except"
    /\ caught' = TRUE
    /\ pc' = "returned"
    /\ UNCHANGED <<CACHE_FILE, poi, calls, reqs, footer>>
    /\ UNCHANGED <<runVars, loopVars, enrichVars, callVars>>
    /\ UNCHANGED <<nicho, filtros, df_filtrado, df_feat, n_clusters, labels,
                   peso, ranking, regioes, fits, columns, error>>

GerarHandler ==
    /\ pc = "g_except"
    /\ regioes' = <<>>
    /\ caught' = TRUE
    /\ pc' = "returned"
    /\ UNCHANGED <<CACHE_FILE, poi, calls, reqs, footer>>
    /\ UNCHANGED <<runVars, loopVars, enrichVars, callVars>>
    /\ UNCHANGED <<nicho, filtros, df_filtrado, df_feat, n_clusters, labels,
                   peso, ranking, fits, columns, error>>

GerarNext ==
    \/ GerarEnrichBegin \/ LoadCacheRaises \/ GerarSkipDisabled
    \/ GerarLoopNext
    \/ EnrichRowParsed
    \/ EnrichCacheHit \/ EnrichCacheMiss
    \/ NearbyBegin \/ NearbyOkServiceUp
    \/ EnrichRowReturn
    \/ GerarBody \/ GerarBodyExcept
    \/ GerarPropagate
    \/ SaveOpen \/ SaveWrite \/ SaveClose \/ SaveRaises
    \/ GerarEnsureCols
    \/ ApplyFilters \/ ApplyFiltersRaises
    \/ GerarNoRecords \/ GerarBuildFeatures
    \/ GerarBypass \/ GerarFitKMeans
    \/ GerarRank
    \/ GerarRegions \/ GerarRegionsRaises
    \/ GerarHandler

\* one call of gerar_regioes_ideais from the enrichment to the return
GerarSpec == GerarInit /\ [][GerarNext]_vars

(* ================= loading the table and its validation =============== *)
\* headers as they stand in sample input files
RawHeaders ==
    {"Cliente", "nome", "Latitude", "LON", "Classe Social", "Tipo",
     "Categoria", "Bairro"}

\* data_loader.py lines 22-25 (and the same function of the pipeline):
\* accents off, strip, upper case, separators to blanks
normalize_header(h) ==
    CASE h = "Cliente" -> "CLIENTE"
      [] h = "nome" -> "NOME"
      [] h = "Latitude" -> "LATITUDE"
      [] h = "LON" -> "LON"
      [] h = "Classe Social" -> "CLASSE SOCIAL"
      [] h = "Tipo" -> "TIPO"
      [] h = "Categoria" -> "CATEGORIA"
      [] h = "Bairro" -> "BAIRRO"

\* the alias map of mapear_colunas, at the sample headers
alias_map ==
    [CLIENTE |-> "nome", NOME |-> "nome", LATITUDE |-> "lat", LON |-> "lon",
     CLASSE_SOCIAL |-> "classe", TIPO |-> "tipo_comercial",
     CATEGORIA |-> "tipo_comercial", BAIRRO |-> "bairro"]

\* the alias map of main, which does not know CATEGORIA
alias_map_main ==
    [CLIENTE |-> "nome", NOME |-> "nome", LATITUDE |-> "lat", LON |-> "lon",
     CLASSE_SOCIAL |-> "classe", TIPO |-> "tipo_comercial", BAIRRO |-> "bairro"]

\* df.rename(columns={col: alias_map[col] for col in df.columns if col in
\* alias_map}); the key "CLASSE SOCIAL" is written with an underscore here
Renamed(col, aliases) ==
    LET key == IF col = "CLASSE SOCIAL" THEN "CLASSE_SOCIAL" ELSE col
    IN  IF key \in DOMAIN aliases THEN aliases[key] ELSE col

\* the required columns: data_loader.py line 220, pipeline line 596
colunas_obrigatorias == <<"nome", "lat", "lon", "classe", "tipo_comercial">>

\* missing = [c for c in colunas if c not in df.columns]
Missing_FirstOnly(cols, required) ==
    LET all == SelectSeq(required, LAMBDA c : c \notin cols)
    IN  IF all = <<>> THEN <<>> ELSE <<all[1]>>

Missing(cols, required) == SelectSeq(required, LAMBDA c : c \notin cols)

\* a file with some of the sample headers is handed to main, to
\* gerar_regioes_ideais or to carregar_e_preparar_dados
LoadInit ==
    /\ API_KEY = FALSE
    /\ CACHE_FILE = <<>>
    /\ runs = 1
    /\ entry \in {"main", "gerar", "loader"}
    /\ pc = "load"
    /\ usar_api = FALSE
    /\ df = <<>>
    /\ poi = EmptyDict
    /\ EnrichReset
    /\ nicho = "Outro"
    /\ filtros = NoFiltros
    /\ df_filtrado = <<>>
    /\ df_feat = NoFeat
    /\ n_clusters = 0
    /\ labels = <<>>
    /\ peso = <<>>
    /\ ranking = <<>>
    /\ regioes = <<>>
    /\ fits = 0
    /\ caught = FALSE
    /\ columns \in SUBSET RawHeaders
    /\ error = <<>>

loadRest == <<API_KEY, CACHE_FILE, runs, entry, usar_api, df, poi, cache, sess,
              locais_amostra, i, pois_por_local, all_new, k, results,
              new_records, page, total, cnt, hist, sleeps, calls, rowcalls,
              reqs, file0, prev, excepted, footer, nicho, filtros, df_filtrado,
              df_feat, n_clusters, labels, peso, ranking, fits>>

\* data_loader.py lines 66, 226; pipeline lines 571, 592-593: the headers
\* are normalized and the known ones renamed
MapColumns ==
    /\ pc = "load"
    /\ columns' = {Renamed(normalize_header(h),
                           IF entry = "main" THEN alias_map_main ELSE alias_map) :
                      h \in columns}
    /\ pc' = "validate"
    /\ UNCHANGED <<loadRest, regioes, caught, error>>

\* data_loader.py lines 139-140, pipeline lines 189-190: nothing missing
ValidateOk ==
    /\ pc = "validate"
    /\ Missing(columns, colunas_obrigatorias) = <<>>
    /\ pc' = "loaded"
    /\ UNCHANGED <<loadRest, regioes, caught, columns, error>>

\* data_loader.py lines 141-144, pipeline line 191: ValueError with the
\* missing columns (and, in the loader, the columns there are); main and
\* carregar_e_preparar_dados let it go to their caller
ValidateRaises ==
    /\ pc = "validate"
    /\ entry \in {"main", "loader"}
    /\ Missing(columns, colunas_obrigatorias) # <<>>
    /\ error' = [type |-> "ValueError",
                 missing |-> Missing(columns, colunas_obrigatorias),
                 available |-> IF entry = "loader" THEN Val(columns) ELSE None]
    /\ pc' = "raised"
    /\ UNCHANGED <<loadRest, regioes, caught, columns>>

\* gerar_regioes_ideais lines 301-303 call the loader inside the try of
\* line 278: the ValueError goes to the handler of lines 493-497
ValidateRaisesInGerar ==
    /\ pc = "validate"
    /\ entry = "gerar"
    /\ Missing(columns, colunas_obrigatorias) # <<>>
    /\ pc' = "g_except"
    /\ UNCHANGED <<loadRest, regioes, caught, columns, error>>

LoadNext ==
    \/ MapColumns
    \/ ValidateOk \/ ValidateRaises \/ ValidateRaisesInGerar
    \/ GerarHandler

\* the table is loaded and validated by each entry point
LoadSpec == LoadInit /\ [][LoadNext]_vars

(* ============================= properties ============================= *)
\* the key is in the table loaded by load_cache()
InCache(h) == \E p \in DOMAIN cache : cache[p].h = h

\* the count of the first row of the loaded table with key h
FirstCount(table, h) ==
    LET p == CHOOSE q \in DOMAIN table :
                 table[q].h = h /\ \A r \in 1..(q - 1) : table[r].h # h
    IN  table[p].count

\* the count staged for the lookup of type t at the coordinates of row
StagedCount(recs, row, t) ==
    LET j == CHOOSE q \in DOMAIN recs :
                 /\ recs[q].lat = row.lat /\ recs[q].lon = row.lon
                 /\ recs[q].type = t.tp /\ recs[q].radius = t.radius
    IN  recs[j].count

RowKey(row, t) == hkey(row.lat, row.lon, t.tp, t.radius)

\* the sum, over the first n triples that feed column c, of the cached
\* count when the key is cached and of the staged count otherwise
RECURSIVE SumTo(_, _, _, _)
SumTo(recs, row, c, n) ==
    IF n = 0 THEN 0
    ELSE SumTo(recs, row, c, n - 1) +
         (IF PoiCol(Triples[n].label, Triples[n].radius) # c THEN 0
          ELSE IF InCache(RowKey(row, Triples[n]))
               THEN FirstCount(cache, RowKey(row, Triples[n]))
               ELSE StagedCount(recs, row, Triples[n]))

InEnrichRow ==
    /\ entry \in {"gerar", "main"}
    /\ pc \in {"er_key", "nc_enter", "nc_get", "body"}
    /\ CurRow.numeric

AllKeysCached(row) ==
    \A n \in DOMAIN Triples : InCache(RowKey(row, Triples[n]))

\* C1: inside enrich_row_with_pois a key present in the loaded cache is
\* never looked up nor staged, and the value of every column is the sum of
\* the cached counts of its cached keys and the looked-up counts of the
\* others; a row whose keys are all cached causes no nearby_count call and
\* gets exactly the cached sums
C1_CacheHitShortCircuits ==
    InEnrichRow =>
        /\ \A j \in DOMAIN new_records : ~InCache(new_records[j].h)
        /\ rowcalls = Len(new_records)
                        + (IF pc \in {"nc_enter", "nc_get"} THEN 1 ELSE 0)
        /\ \A c \in DOMAIN results :
                results[c] = SumTo(new_records, CurRow, c, k - 1)
        /\ (pc = "body" /\ AllKeysCached(CurRow)) =>
                /\ rowcalls = 0
                /\ new_records = <<>>
                /\ DOMAIN results = AllPoiCols

\* the documented scenario: the location (-3.7319, -38.5267) with both keys
\* cached, gym count 5, enriched without any call
C1_Witness ==
    /\ InEnrichRow /\ pc = "body"
    /\ CurRow.lat = Scenario.lat /\ CurRow.lon = Scenario.lon
    /\ AllKeysCached(CurRow)
    /\ rowcalls = 0
    /\ results[PoiCol("gym", 800)] = 5

\* C2: when a run that enriched is repeated with the same records, the
\* repetition calls nearby_count zero times, stages nothing and leaves the
\* cache file as the first run wrote it
C2_SecondRunIdempotent ==
    (runs = 2 /\ usar_api /\ API_KEY) =>
        /\ calls = 0
        /\ reqs = 0
        /\ new_records = <<>>
        /\ all_new = <<>>
        /\ CACHE_FILE = file0

\* a repeated enrichment run that reached the end, after a first run that
\* wrote rows to the cache file
C2_Witness ==
    /\ runs = 2 /\ usar_api /\ API_KEY
    /\ pc = "built"
    /\ Len(df) = 2
    /\ Len(CACHE_FILE) >= 4

\* the outcome is a failure of the request or of the API
IsFailure(o) ==
    \/ o.exc # "none"
    \/ o.http # 200
    \/ o.status \notin {"OK", "ZERO_RESULTS"}

\* C3: nearby_count always returns, never raises; the value is an integer
\* >= 0, it is 0 when the last request ended in a timeout, another request
\* exception, an HTTP error status, an unparsable body, OVER_QUERY_LIMIT or
\* another API error status, and without credential it is 0 and no request
\* is issued; the counts staged by enrich_row_with_pois are integers >= 0
C3_NearbyCountTotal ==
    /\ pc # "nc_raise"
    /\ \A j \in DOMAIN new_records : new_records[j].count \in Nat
    /\ pc = "nc_ret" =>
        /\ cnt \in Nat
        /\ (~API_KEY) => (cnt = 0 /\ reqs = 0 /\ hist = <<>>)
        /\ API_KEY => hist # <<>>
        /\ (hist # <<>> /\ IsFailure(hist[Len(hist)])) => cnt = 0

\* a call that ended after a connection error on the retry
C3_Witness ==
    /\ pc = "nc_ret"
    /\ Len(hist) = 2
    /\ hist[2].exc = "ConnectionError"
    /\ cnt = 0

\* a response with one of the statuses 429, 500, 503
StatusRetried(o) == o.exc = "none" /\ o.http \in {429, 500, 503}

C5_RetryThenOk ==
    (/\ pc = "nc_ret"
     /\ Len(hist) = 2
     /\ hist[1].exc = "none" /\ hist[1].http = 429
     /\ hist[2].exc = "none" /\ hist[2].http = 200 /\ hist[2].status = "OK")
    => (cnt = hist[2].n /\ Len(sleeps) = 1)

C5_Witness ==
    /\ pc = "nc_ret"
    /\ Len(hist) = 2
    /\ hist[1].exc = "none" /\ hist[1].http = 429
    /\ hist[2].exc = "none" /\ hist[2].http = 200 /\ hist[2].status = "OK"
    /\ cnt = hist[2].n
    /\ cnt >= 1
    /\ Len(sleeps) = 1

\* the rows of the table in the cell of the representative row
RowsOfCell(cell) == {r \in DOMAIN df : Cell(df[r]) = cell}

C7_PoiColumnsNeverMissing ==
    /\ [](entry = "gerar" =>
            /\ pc \in {"features", "built"} => AllPoiCols \subseteq DOMAIN poi
            /\ pc = "built" =>
                    \A c \in AllPoiCols :
                        /\ NormCol(c) \in DOMAIN poi
                        /\ \A r \in DOMAIN df :
                                /\ poi[c][r] # NaN
                                /\ poi[NormCol(c)][r] # NaN)
    /\ [][(entry = "gerar" /\ pc = "features" /\ pc' = "built") =>
            \A c \in AllPoiCols : \A r \in DOMAIN df :
                poi'[c][r] = IF poi[c][r] = NaN THEN Val(0) ELSE poi[c][r]]_vars

\* only one of two locations got values: the other one's cells were missing
\* and are 0 after build_features
C7_Witness ==
    /\ entry = "gerar" /\ usar_api /\ API_KEY
    /\ pc = "built"
    /\ Len(locais_amostra) = 2
    /\ Cardinality(excepted) = 1
    /\ \E c \in AllPoiCols : \E r \in DOMAIN df : poi[c][r] = Val(1)
    /\ \E c \in AllPoiCols : \E r \in DOMAIN df :
            Cell(df[r]) \in excepted /\ poi[c][r] = Val(0)

NoKeyRequested == entry \in {"gerar", "main"} /\ usar_api /\ ~API_KEY

\* C8 as stated: with enrichment requested and no credential neither entry
\* point lets an exception or a process exit reach its caller
C8_NoKeyNeverExits ==
    NoKeyRequested => pc # "exit"

\* C8 amended: with enrichment requested and no credential no request is
\* issued and the cache file is untouched; gerar_regioes_ideais never
\* exits, and reaches build_features with every POI column zero; main
\* raises SystemExit before any POI column exists
C8_NoKeySkipsOrExits ==
    NoKeyRequested =>
        /\ calls = 0 /\ reqs = 0
        /\ CACHE_FILE = file0
        /\ entry = "gerar" =>
                /\ pc \in {"g_enter", "g_cols", "features", "built", "returned"}
                /\ pc \in {"features", "built"} =>
                        /\ AllPoiCols \subseteq DOMAIN poi
                        /\ \A c \in AllPoiCols : \A r \in DOMAIN df :
                                poi[c][r] = Val(0)
        /\ entry = "main" =>
                /\ pc \in {"m_enter", "exit"}
                /\ poi = EmptyDict

\* gerar_regioes_ideais went on to build_features without credential
C8_Witness ==
    /\ entry = "gerar" /\ usar_api /\ ~API_KEY
    /\ pc = "built"
    /\ Len(df) = 2

\* C9: the cache file never holds two rows with the same key
C9_OneEntryPerKey ==
    \A p, q \in DOMAIN CACHE_FILE :
        CACHE_FILE[p].h = CACHE_FILE[q].h => p = q

\* s is a prefix of t
IsPrefix(s, t) ==
    /\ Len(s) <= Len(t)
    /\ \A p \in DOMAIN s : t[p] = s[p]

C11_SaveIsAtomic ==
    (entry = "gerar" /\ pc \in {"killed", "returned", "exit"})
        => /\ footer
           /\ CACHE_FILE \in {file0, file0 \o all_new}


\* the record is the first of its cell in table order
FirstOfCell(q) == \A p \in 1..(q - 1) : Cell(df[p]) # Cell(df[q])

\* number of cells that begin at or before record q
CellsUpTo(q) == Cardinality({p \in 1..q : FirstOfCell(p)})

\* the enrichment loop of gerar_regioes_ideais has been entered
InGerarEnrichment ==
    /\ entry = "gerar" /\ usar_api /\ API_KEY
    /\ pc \notin {"idle", "g_enter"}

\* C12: gerar_regioes_ideais enriches at most 10 representative locations,
\* exactly one per cell, namely the first record of each of the first 10
\* cells in table order, and so makes at most 10 x |subtypes| x |radii|
\* nearby_count calls in a run
C12_AtMostTenRepresentatives ==
    InGerarEnrichment =>
        /\ Len(locais_amostra) <= 10
        /\ \A a, b \in DOMAIN locais_amostra :
               a < b => locais_amostra[a] < locais_amostra[b]
        /\ {locais_amostra[j] : j \in DOMAIN locais_amostra}
               = {q \in DOMAIN df : FirstOfCell(q) /\ CellsUpTo(q) <= 10}
        /\ i <= Len(locais_amostra) + 1
        /\ calls <= 10 * Len(Triples)

C12_Witness ==
    /\ InGerarEnrichment
    /\ pc = "built"
    /\ Cardinality({Cell(df[r]) : r \in DOMAIN df}) > 10
    /\ Len(locais_amostra) = 10
    /\ calls = 10 * Len(Triples)

\* the cell of the record is the cell of a representative location
Represented(r) ==
    \E j \in DOMAIN locais_amostra : Cell(df[locais_amostra[j]]) = Cell(df[r])

\* C13: after the enrichment (and the fillna of build_features) every
\* record in the cell of a representative location has that
\* representative's value in every POI column, and every record of a cell
\* without representative has 0 in every POI column
C13_PropagatedToCell ==
    (InGerarEnrichment /\ pc = "built") =>
        \A r \in DOMAIN df : \A c \in AllPoiCols :
            /\ c \in DOMAIN poi
            /\ Represented(r) =>
                   /\ poi[c][r] = Val(pois_por_local[Cell(df[r])][c])
                   /\ \A j \in DOMAIN locais_amostra :
                          Cell(df[locais_amostra[j]]) = Cell(df[r])
                              => poi[c][r] = poi[c][locais_amostra[j]]
            /\ ~Represented(r) => poi[c][r] = Val(0)

C13_Witness ==
    /\ InGerarEnrichment /\ pc = "built"
    /\ \E r \in DOMAIN df : ~Represented(r)
    /\ \E r \in DOMAIN df : \E c \in AllPoiCols :
           /\ Represented(r)
           /\ ~FirstOfCell(r)
           /\ poi[c][r] # Val(0)


\* the gym column handed to build_features, NaN read as 0
GivenGym(r) == IF df[r].gym = NaN THEN 0 ELSE df[r].gym[1]

GymLeast == CHOOSE m \in {GivenGym(r) : r \in DOMAIN df} :
                \A r \in DOMAIN df : m <= GivenGym(r)
GymMost == CHOOSE m \in {GivenGym(r) : r \in DOMAIN df} :
               \A r \in DOMAIN df : m >= GivenGym(r)

\* C19: every value of a _norm column lies in [0,1] and equals
\* (v - min)/(max - min) over the records handed to build_features; when
\* all records share one value (a single record included) the normalized
\* value is 0 for every record and nothing is divided by zero
C19_NormInUnitInterval ==
    (entry = "direct" /\ pc = "built") =>
        /\ \A c \in AllPoiCols : \A r \in DOMAIN df :
               LET x == df_feat.cols[NormCol(c)][r][1]
               IN  /\ x.den > 0
                   /\ 0 <= x.num /\ x.num <= x.den
        /\ \A r \in DOMAIN df :
               LET x == df_feat.cols[NormCol(PoiCol("gym", 800))][r][1]
               IN  IF GymMost = GymLeast
                   THEN x.num = 0
                   ELSE x.num * (GymMost - GymLeast)
                            = (GivenGym(r) - GymLeast) * x.den

C19_Witness ==
    /\ entry = "direct" /\ pc = "built"
    /\ \E r, q \in DOMAIN df :
           /\ GivenGym(r) # GivenGym(q)
           /\ df_feat.cols[NormCol(PoiCol("gym", 800))][r][1].num = 1
           /\ df_feat.cols[NormCol(PoiCol("gym", 800))][r][1].den = 2
    /\ \A r \in DOMAIN df :
           df_feat.cols[NormCol(PoiCol("supermarket", 800))][r][1].num = 0

\* C20: classe_ord is 5, 4, 3, 2, 1 for class A, B, C, D, E in either
\* case and 0 for any other or missing class: an integer in 0..5
C20_ClasseOrdTotal ==
    (entry = "direct" /\ pc = "built") =>
        \A r \in DOMAIN df :
            LET given == df[r].classe
                ord == df_feat.classe_ord[r]
            IN  /\ ord \in 0..5
                /\ given \in {Val("A"), Val("a")} => ord = 5
                /\ given = Val("B") => ord = 4
                /\ given = Val("C") => ord = 3
                /\ given = Val("D") => ord = 2
                /\ given \in {Val("E"), Val("e")} => ord = 1
                /\ given \in {Val("X"), Val(" A"), NaN} => ord = 0

C20_Witness ==
    /\ entry = "direct" /\ pc = "built"
    /\ Len(df) >= 2
    /\ df[1].classe = Val("e") /\ df_feat.classe_ord[1] = 1
    /\ df[2].classe = NaN /\ df_feat.classe_ord[2] = 0


\* C14: when the filtered records are fewer than the cluster count,
\* gerar_regioes_ideais does not invoke KMeans and returns the first (at
\* most 10) filtered records in their order, each with cluster, score,
\* classe_med and poi_med None and the fixed "few data" justification.
C14_FewRecordsBypassClustering ==
    (/\ pc \in {"g_rank", "g_regions", "returned"}
     /\ Len(df_filtrado) > 0
     /\ Len(df_filtrado) < n_clusters)
        => /\ fits = 0
           /\ pc = "returned"
           /\ Len(regioes) = Min(10, Len(df_filtrado))
           /\ \A j \in 1..Len(regioes) :
                  /\ regioes[j].idx = df_filtrado[j]
                  /\ regioes[j].lat = df[df_filtrado[j]].lat
                  /\ regioes[j].lon = df[df_filtrado[j]].lon
                  /\ regioes[j].cluster = None
                  /\ regioes[j].score = None
                  /\ regioes[j].classe_med = None
                  /\ regioes[j].poi_med = None
                  /\ regioes[j].motivo = [kind |-> "poucos_dados"]

\* a call whose filters leave one record of several: it is returned raw
C14_Witness ==
    /\ pc = "returned"
    /\ Len(df) > 1
    /\ Len(df_filtrado) = 1
    /\ n_clusters = 2
    /\ fits = 0
    /\ Len(regioes) = 1
    /\ regioes[1].cluster = None
    /\ regioes[1].idx = 3

\* the end-to-end scenario: niche Fitness, enrichment disabled, exactly 3
\* filtered records, all ACADEMIA, of classes A, B and C; the call returned
ThreeAcademias ==
    /\ pc = "returned"
    /\ nicho = "Fitness"
    /\ ~usar_api
    /\ Len(df_filtrado) = 3
    /\ \A j \in 1..3 : df[df_filtrado[j]].tipo_comercial = Val("ACADEMIA")
    /\ {df[df_filtrado[j]].classe : j \in 1..3} = {Val("A"), Val("B"), Val("C")}

\* C15 as stated: in the scenario of 3 records clustering is bypassed and
\* the regions are raw, with null cluster and score.
C15_ThreeRecordsBypassed ==
    ThreeAcademias
        => /\ fits = 0
           /\ \A j \in 1..Len(regioes) :
                  regioes[j].cluster = None /\ regioes[j].score = None

\* C15 (amended): in the scenario of 3 records the cluster count is 2 and
\* 3 >= 2, so KMeans is invoked once with 2 clusters; all 3 records are
\* returned, each with a cluster in {0, 1}, a score, classe_med and
\* poi_med; the POI columns are all zero and the motivo lists no POI.
C15_ThreeRecordsClustered ==
    ThreeAcademias
        => /\ fits = 1
           /\ n_clusters = 2
           /\ Len(regioes) = 3
           /\ \A j \in 1..Len(regioes) :
                  /\ regioes[j].cluster \in {Val(0), Val(1)}
                  /\ regioes[j].score # None
                  /\ regioes[j].classe_med # None
                  /\ regioes[j].poi_med = Val([num |-> 0, den |-> 1])
                  /\ regioes[j].motivo.kind = "cluster"
                  /\ regioes[j].motivo.pois = <<>>
           /\ \A c \in AllPoiCols : \A j \in 1..3 : df_feat.cols[c][j] = Val(0)

\* the scenario with the table in the order A, B, C and both clusters used
C15_Witness ==
    /\ ThreeAcademias
    /\ Len(df) = 3
    /\ df[1].classe = Val("A") /\ df[2].classe = Val("B")
    /\ {regioes[j].cluster : j \in 1..Len(regioes)} = {Val(0), Val(1)}

\* C16: once computed, the cluster count for n filtered records is 2 for
\* n < 90, 3 for 90 <= n < 120 and 4 for n >= 120; it is never below 2
\* nor above 4.
C16_ClusterCountPiecewise ==
    LET n == Len(df_filtrado)
    IN  n_clusters # 0
            => /\ n_clusters \in 2..4
               /\ n < 90 => n_clusters = 2
               /\ (90 <= n /\ n < 120) => n_clusters = 3
               /\ n >= 120 => n_clusters = 4

\* a call with 120 records, the least count that gives 4 clusters
C16_Witness ==
    /\ Len(df_filtrado) = 120
    /\ n_clusters = 4
    /\ fits = 1

\* C17: the ranking has exactly one row per distinct cluster label, ordem
\* is 1..N in row order, score_potencial does not increase with ordem,
\* and of two clusters with equal score the one with the smaller cluster
\* id has the smaller ordem.
C17_RankingTiesByClusterId ==
    LET N == Len(ranking)
    IN  pc \in {"g_regions", "returned"} /\ N > 0
            => /\ {ranking[a].cluster : a \in 1..N}
                      = {labels[j] : j \in DOMAIN labels}
               /\ \A a, b \in 1..N :
                      a # b => ranking[a].cluster # ranking[b].cluster
               /\ \A a \in 1..N : ranking[a].ordem = a
               /\ \A a, b \in 1..N :
                      a < b =>
                          /\ ranking[b].score_potencial.num
                                 * ranking[a].score_potencial.den
                               <= ranking[a].score_potencial.num
                                      * ranking[b].score_potencial.den
                          /\ ranking[a].score_potencial
                                 = ranking[b].score_potencial
                               => ranking[a].cluster < ranking[b].cluster

\* C18: every pair of the weight table sums to 1.0 (10 tenths) with both
\* weights in [0, 1]; the pair looked up for a niche that is not a key is
\* the default (0.6, 0.4), which is also the pair of "Outro"; the lookup
\* gives a pair for every niche.
C18_WeightsSumToOne ==
    /\ \A n \in DOMAIN pesos :
           /\ pesos[n][1] + pesos[n][2] = 10
           /\ pesos[n][1] \in 0..10 /\ pesos[n][2] \in 0..10
    /\ pesos["Outro"] = <<6, 4>>
    /\ pc \in {"g_regions", "returned"} /\ fits > 0
           => /\ Len(peso) = 2
              /\ peso[1] + peso[2] = 10
              /\ nicho \in DOMAIN pesos => peso = pesos[nicho]
              /\ nicho \notin DOMAIN pesos => peso = <<6, 4>>

\* a ranking computed for a niche that the table does not have
C18_Witness ==
    /\ pc = "returned"
    /\ nicho \notin DOMAIN pesos
    /\ peso = <<6, 4>>
    /\ Len(ranking) > 0
    /\ ranking[1].score_potencial # [num |-> 0, den |-> 1]

\* the call returned from the clustered path
Clustered == pc = "returned" /\ fits > 0

\* the place of cluster c in the ranking
OrdemOf(c) == CHOOSE a \in 1..Len(ranking) : ranking[a].cluster = c

\* the index labels of the first (at most 10) rows of df_feat in cluster c
FirstMembers(c) ==
    {df_filtrado[j] : j \in {q \in DOMAIN labels :
        /\ labels[q] = c
        /\ Cardinality({t \in 1..(q - 1) : labels[t] = c}) < 10}}

\* C21: on the clustered path the regions come grouped by cluster in
\* ascending ordem, each cluster gives its first (at most 10) members in
\* the order of the feature table, every region carries the
\* score_potencial, classe_med and poi_med of its own cluster, and there
\* are at most 10 x k <= 40 regions.
C21_RegionsByRankThenTableOrder ==
    Clustered
        => /\ Len(regioes) <= 10 * n_clusters
           /\ Len(regioes) <= 40
           /\ \A c \in {labels[j] : j \in DOMAIN labels} :
                  {regioes[m].idx : m \in {x \in 1..Len(regioes) :
                                              regioes[x].cluster = Val(c)}}
                      = FirstMembers(c)
           /\ \A m \in 1..Len(regioes) :
                  LET a == OrdemOf(regioes[m].cluster[1])
                  IN  /\ regioes[m].score = Val(ranking[a].score_potencial)
                      /\ regioes[m].classe_med = Val(ranking[a].classe_med)
                      /\ regioes[m].poi_med = Val(ranking[a].poi_med)
                      /\ labels[CHOOSE j \in DOMAIN labels :
                                    df_filtrado[j] = regioes[m].idx]
                             = regioes[m].cluster[1]
           /\ \A m, x \in 1..Len(regioes) :
                  m < x =>
                      /\ OrdemOf(regioes[m].cluster[1])
                             <= OrdemOf(regioes[x].cluster[1])
                      /\ regioes[m].cluster = regioes[x].cluster
                             => regioes[m].idx < regioes[x].idx

\* two clusters of more than 10 members each, the one with the larger id
\* ranked first: 20 regions, the first 10 of cluster 1
C21_Witness ==
    /\ Clustered
    /\ Len(ranking) = 2
    /\ ranking[1].cluster = 1
    /\ \A c \in {0, 1} : Cardinality({j \in DOMAIN labels : labels[j] = c}) > 10
    /\ Len(regioes) = 20
    /\ regioes[1].cluster = Val(1)
    /\ regioes[11].cluster = Val(0)

\* the position in df_feat of the record of region m
RowOf(m) == CHOOSE j \in DOMAIN labels : df_filtrado[j] = regioes[m].idx

\* the count of POIs of label a near the record at position j of df_feat
PoiCount(a, j) == df_feat.cols[PoiCol(PLACES_LABELS[a], RADII[1])][j][1]

\* the POIs listed by region m are those of its record with a positive
\* count, at most 3, under their display names, the highest counts first
ListedPoisAreTop(m) ==
    LET pois == regioes[m].motivo.pois
        nomes == [gym |-> "Academias", supermarket |-> "Supermercados"]
        listed == {a \in DOMAIN PLACES_LABELS :
                      \E p \in 1..Len(pois) :
                          pois[p] = [nome |-> nomes[PLACES_LABELS[a]],
                                     qtd |-> PoiCount(a, RowOf(m))]}
    IN  /\ Len(pois) <= 3
        /\ Cardinality(listed) = Len(pois)
        /\ \A p, q \in 1..Len(pois) : p < q => pois[p].qtd >= pois[q].qtd
        /\ \A a \in listed : PoiCount(a, RowOf(m)) > 0
        /\ \A a \in DOMAIN PLACES_LABELS :
               PoiCount(a, RowOf(m)) > 0 /\ a \notin listed
                   => /\ Len(pois) = 3
                      /\ \A b \in listed :
                             PoiCount(b, RowOf(m)) >= PoiCount(a, RowOf(m))

\* what holds of the justifications: the listed POIs are the top ones, and
\* the note stands in for the list exactly when no count is positive
PoisListedOrNoneFound ==
    Clustered =>
        \A m \in 1..Len(regioes) :
            /\ ListedPoisAreTop(m)
            /\ regioes[m].motivo.pois = <<>>
                   <=> \A a \in DOMAIN PLACES_LABELS : PoiCount(a, RowOf(m)) = 0

\* C22: on the clustered path a region's justification lists the (at most
\* 3) POI types with the highest counts near its record, in descending
\* order of count under their display labels, when the enrichment ran,
\* and carries the "API not consulted" note (no list) when it was skipped.
C22_PoisListedWhenEnriched ==
    Clustered =>
        \A m \in 1..Len(regioes) :
            /\ ListedPoisAreTop(m)
            /\ usar_api /\ API_KEY => regioes[m].motivo.pois # <<>>
            /\ ~(usar_api /\ API_KEY) => regioes[m].motivo.pois = <<>>

\* C23: if no record remains after the class, business-type and
\* neighbourhood filters, gerar_regioes_ideais returns an empty list and
\* has built no features, computed no cluster count, fitted no KMeans and
\* ranked nothing.
C23_NoRecordsReturnsEmpty ==
    (pc \notin {"g_filter", "g_filtered"} /\ Len(df_filtrado) = 0)
        => /\ pc = "returned"
           /\ regioes = <<>>
           /\ df_feat = NoFeat
           /\ n_clusters = 0
           /\ fits = 0
           /\ labels = <<>>
           /\ ranking = <<>>

\* a table of five records of which the neighbourhood filter keeps none
C23_Witness ==
    /\ pc = "returned"
    /\ Len(df) = 5
    /\ filtros.bairro = {"Meireles"}
    /\ filtros.classe = {"A", "B"}
    /\ df_filtrado = <<>>
    /\ regioes = <<>>

\* C24 as stated: whenever an exception was raised inside the call (in
\* the body of the enrichment loop or anywhere else), the call returns an
\* empty list.
C24_EveryExceptionReturnsEmpty ==
    (pc = "returned" /\ (caught \/ excepted # {})) => regioes = <<>>

\* C24 (amended): an exception that reaches the handler of the function
\* boundary makes the call return an empty list, whatever had been built;
\* an exception raised in the body of the enrichment loop is absorbed by
\* the loop's own handler and the call goes on: if the boundary handler
\* did not run and a record passed the filters, regions are returned. The
\* call always returns: no exception leaves it.
C24_BoundaryReturnsEmptyLoopGoesOn ==
    /\ pc \notin {"exit", "killed"}
    /\ (pc = "returned" /\ caught) => regioes = <<>>
    /\ (pc = "returned" /\ ~caught /\ Len(df_filtrado) > 0) => regioes # <<>>

\* a call in which the body of the enrichment loop raised for a location,
\* the call went on to rank the clusters, the synthesis raised and the
\* handler returned the empty list
C24_Witness ==
    /\ pc = "returned"
    /\ caught
    /\ excepted # {}
    /\ Len(ranking) = 2
    /\ regioes = <<>>

\* the validation has run and found a required column missing
ValidationFailed ==
    /\ pc \in {"raised", "g_except", "returned"}
    /\ Missing(columns, colunas_obrigatorias) # <<>>

\* the error names exactly the required columns the table lacks
NamesEveryMissing ==
    /\ error # <<>>
    /\ error.type = "ValueError"
    /\ {error.missing[j] : j \in 1..Len(error.missing)}
           = {colunas_obrigatorias[j] : j \in 1..Len(colunas_obrigatorias)}
                 \ columns

\* C25 as stated: when the loaded table lacks a required column, the entry
\* point raises to its caller a ValueError that names every missing
\* column; when none is missing the validation has no effect.
C25_MissingColumnRaisesToCaller ==
    /\ ValidationFailed => (pc # "g_except" => pc = "raised" /\ NamesEveryMissing)
    /\ pc = "loaded" => error = <<>> /\ Missing(columns, colunas_obrigatorias) = <<>>

\* C25 (amended): main and carregar_e_preparar_dados raise the ValueError
\* naming every missing column to their caller; gerar_regioes_ideais
\* catches it at its boundary, raises nothing and returns an empty list;
\* when no required column is missing the validation has no effect.
C25_RaisesExceptThroughGerar ==
    /\ (ValidationFailed /\ entry \in {"main", "loader"})
           => pc = "raised" /\ NamesEveryMissing
    /\ (ValidationFailed /\ entry = "gerar" /\ pc = "returned")
           => error = <<>> /\ caught /\ regioes = <<>>
    /\ pc = "loaded" => error = <<>> /\ Missing(columns, colunas_obrigatorias) = <<>>

\* main on a file whose business type is headed "Categoria" and that has
\* no class: both columns are named by the error
C25_Witness ==
    /\ pc = "raised"
    /\ entry = "main"
    /\ "CATEGORIA" \in columns
    /\ error.missing = <<"classe", "tipo_comercial">>

\* what holds at every moment of a call of nearby_count: at most
\* max_retries + 1 = 2 requests are issued; status retries and timeout
\* retries count on the same counter, so after one retry of either kind a
\* second transient status or timeout ends the call with 0; the wait
\* before a status retry is min(2^attempt, 10) s and before a timeout
\* retry 2 s
AttemptsBounded ==
    /\ Len(hist) <= max_retries + 1
    /\ reqs <= max_retries + 1
    /\ pc = "nc_get" => Len(hist) <= max_retries /\ page = Len(hist)
    /\ Len(sleeps) <= max_retries
    /\ \A j \in 1..Len(sleeps) :
           /\ StatusRetried(hist[j]) \/ hist[j].exc = "Timeout"
           /\ StatusRetried(hist[j]) => sleeps[j] = Min(Pow2(j - 1), 10)
           /\ hist[j].exc = "Timeout" => sleeps[j] = 2
    /\ (/\ pc = "nc_ret"
        /\ Len(hist) = max_retries + 1
        /\ StatusRetried(hist[Len(hist)]) \/ hist[Len(hist)].exc = "Timeout")
           => cnt = 0

RECURSIVE SumOver(_, _)
SumOver(f, S) ==
    IF S = {} THEN 0
    ELSE LET x == CHOOSE y \in S : TRUE IN f[x] + SumOver(f, S \ {x})

RECURSIVE ProdOver(_, _)
ProdOver(f, S) ==
    IF S = {} THEN 1
    ELSE LET x == CHOOSE y \in S : TRUE IN f[x] * ProdOver(f, S \ {x})

\* the normalized POI columns of df_feat
NormCols == {c \in DOMAIN df_feat.cols : Len(c) = 4}

\* the row of the ranking at place a holds the means and the score of its
\* cluster, the fractions compared by cross-multiplication
RowIsClusterMean(a) ==
    LET M == {j \in DOMAIN labels : labels[j] = ranking[a].cluster}
        cm == ranking[a].classe_med
        pm == ranking[a].poi_med
        sc == ranking[a].score_potencial
        w == IF nicho \in DOMAIN pesos THEN pesos[nicho] ELSE <<6, 4>>
        \* the denominator of a normalized column is its range
        d == [c \in NormCols |-> df_feat.cols[c][1][1].den]
        S == [c \in NormCols |->
                 SumOver([j \in M |-> df_feat.cols[c][j][1].num], M)]
        P == ProdOver(d, NormCols)
        weighted == SumOver([c \in NormCols |-> S[c] * (P \div d[c])], NormCols)
    IN  /\ \A c \in NormCols : \A j \in DOMAIN labels :
               df_feat.cols[c][j][1].den = d[c]
        /\ cm.num * Cardinality(M)
               = cm.den * SumOver([j \in M |-> df_feat.classe_ord[j]], M)
        /\ NormCols = {} => pm.num = 0
        /\ NormCols # {} =>
               pm.num * (P * Cardinality(M) * Cardinality(NormCols))
                   = pm.den * weighted
        /\ sc.num * (50 * pm.den * cm.den)
               = sc.den * (5 * w[1] * pm.num * cm.den + w[2] * cm.num * pm.den)
        /\ 0 <= sc.num /\ sc.num <= sc.den /\ sc.den > 0

\* C27: for each cluster rank_clusters gives classe_med, the mean
\* classe_ord of its members, poi_med, the mean over the normalized POI
\* columns of the cluster's mean of the column (0 when there is no such
\* column), and score_potencial = w_poi x poi_med + w_class x classe_med/5
\* with the weights of the niche; the score lies in [0, 1].
C27_ScoreIsWeightedMeans ==
    pc = "g_regions" => \A a \in 1..Len(ranking) : RowIsClusterMean(a)

\* two clusters ranked for Fitness, the first with a POI mean strictly
\* between 0 and 1 and a class mean that is not a whole number
C27_Witness ==
    /\ pc = "g_regions"
    /\ nicho = "Fitness"
    /\ Len(ranking) = 2
    /\ NormCols # {}
    /\ ranking[1].poi_med.num > 0
    /\ ranking[1].poi_med.num < ranking[1].poi_med.den
    /\ ranking[1].classe_med.den = 2
    /\ ranking[2].score_potencial.num > 0

\* the call returned the filtered rows as they are, without clustering
BypassTaken ==
    /\ pc = "returned"
    /\ fits = 0
    /\ Len(regioes) = Len(df_filtrado)
    /\ Len(regioes) > 0
    /\ \A j \in 1..Len(regioes) :
           /\ regioes[j].cluster = None
           /\ regioes[j].motivo.kind = "poucos_dados"

\* C28: in gerar_regioes_ideais the bypass is taken exactly when one
\* record is left by the filters; with none the call returns the empty
\* list before any cluster count is computed, and with n >= 2 records
\* fit_kmeans is invoked, once, with 2 <= n_clusters <= n.
C28_BypassIffOneRecord ==
    LET n == Len(df_filtrado)
    IN  /\ (pc = "returned" /\ n = 0)
               => (regioes = <<>> /\ fits = 0 /\ n_clusters = 0)
        /\ (pc = "returned" /\ n > 0) => (BypassTaken <=> n = 1)
        /\ fits > 0
               => /\ fits = 1
                  /\ n >= 2
                  /\ 2 <= n_clusters
                  /\ n_clusters <= n
                  /\ Len(labels) = n

\* of several records the filters keep one, and it is returned raw
C28_Witness ==
    /\ BypassTaken
    /\ Len(df) > 1
    /\ Len(df_filtrado) = 1
    /\ n_clusters = 2

\* a nearby_count call made by enrich_row_with_pois ends in a failure: a
\* timeout or a transient status with no retry left, another request
\* exception, an HTTP error, a body that is not JSON, OVER_QUERY_LIMIT or
\* another error status
FailedLookup ==
    /\ entry # "direct"
    /\ \/ NearbyStatusGiveUp \/ NearbyTimeoutGiveUp \/ NearbyRequestException
       \/ NearbyHttpError \/ NearbyBadBody
       \/ NearbyOverQueryLimit \/ NearbyApiError

\* the record of key hk with count 0 is the last staged one
StagedZero(staged, hk) ==
    /\ staged # <<>>
    /\ staged[Len(staged)].h = hk
    /\ staged[Len(staged)].count = 0

\* the first record of key hk among the staged ones
FirstStaged(staged, hk) ==
    staged[CHOOSE j \in 1..Len(staged) :
               /\ staged[j].h = hk
               /\ \A q \in 1..(j - 1) : staged[q].h # hk]

\* every staged record is a row of the file, and a lookup of its key in the
\* file gives the count of the first record staged for the key
Persisted(staged, file) ==
    \A j \in 1..Len(staged) :
        /\ \E q \in 1..Len(file) : file[q] = staged[j]
        /\ IsCached(file, staged[j].h)
        /\ CachedCount(file, staged[j].h) = FirstStaged(staged, staged[j].h).count

\* the run is past its save_cache call
PastSave ==
    \/ entry = "gerar" /\ pc \in {"g_cols", "features", "built", "returned"}
    \/ entry = "main" /\ pc \in {"features", "built"}

\* the staged records reach all_new, save_cache writes them all, rows of the
\* cache file are never removed, and in the repeated run every key is found
\* in the loaded cache and nearby_count is not called
StagedIsKeptForGood ==
    /\ [][(pc = "body" /\ pc' # "body")
              => all_new' = all_new \o new_records]_vars
    /\ [](PastSave => Persisted(all_new, CACHE_FILE))
    /\ [][\A q \in 1..Len(CACHE_FILE) :
              q <= Len(CACHE_FILE') /\ CACHE_FILE'[q] = CACHE_FILE[q]]_vars
    /\ []((runs = 2 /\ pc = "er_key" /\ k <= Len(Triples))
              => (IsCached(cache, CurKey) /\ calls = 0))

\* C29 as stated: a lookup that ends in a failure is staged with count 0
\* and kept for good as a successful one is, and 0 is what a lookup of its
\* key gives in the table that save_cache writes (line 371), hence in every
\* later run.
C29_FailureServedAsZeroEverAfter ==
    /\ [][FailedLookup
              => /\ StagedZero(new_records', CurKey)
                 /\ CachedCount(cache \o all_new \o new_records', CurKey) = 0
         ]_vars
    /\ StagedIsKeptForGood

\* what holds: a lookup that ends in a failure is staged with count 0 as a
\* successful one is; the staged records reach all_new and save_cache
\* writes them all to the cache file, whose rows are never removed; in
\* later runs the key is found in the cache and nearby_count is not called
\* for it, and the count served is that of the first record staged for the
\* key: 0 unless an earlier lookup of the same key in the same run found
\* places
FailureCachedForGood ==
    /\ [][FailedLookup => StagedZero(new_records', CurKey)]_vars
    /\ StagedIsKeptForGood

\* the repeated gerar_regioes_ideais finds in the cache, without a call, a
\* key that the first run staged twice, with a count of 1 and then of 0,
\* and serves 1
ShadowedZeroServed ==
    /\ runs = 2
    /\ entry = "gerar"
    /\ pc = "er_key"
    /\ k <= Len(Triples)
    /\ IsCached(cache, CurKey)
    /\ CachedCount(cache, CurKey) = 1
    /\ \E q \in 1..Len(cache) : cache[q].h = CurKey /\ cache[q].count = 0
    /\ \A f \in InitialFiles : ~IsCached(f, CurKey)
    /\ calls = 0

\* the record satisfies every active filter of the call: its class is one
\* of the selected, its business type is the selected one and its
\* neighbourhood one of the selected, both ignoring case
SatisfiesFilters(row) ==
    /\ filtros.classe # {}
           => (row.classe # NaN /\ row.classe[1] \in filtros.classe)
    /\ filtros.tipo # ""
           => /\ row.tipo_comercial # NaN
              /\ Upper(row.tipo_comercial[1]) = Upper(filtros.tipo)
    /\ filtros.bairro # {}
           => /\ "bairro" \in DOMAIN row
              /\ row.bairro # NaN
              /\ \E b \in filtros.bairro : Upper(b) = Upper(row.bairro[1])

\* the filters have been applied in this call
FiltersApplied == pc \in {"g_filtered", "g_count", "g_rank", "g_regions"}
                      \/ (pc = "returned" /\ ~caught)

\* df_filtrado holds, in table order, exactly the records that satisfy the
\* filters
FilteredAreTheSatisfying ==
    /\ \A a, b \in 1..Len(df_filtrado) : a < b => df_filtrado[a] < df_filtrado[b]
    /\ {df_filtrado[a] : a \in 1..Len(df_filtrado)}
           = {r \in 1..Len(df) : SatisfiesFilters(df[r])}

\* the representative locations are the first rows of the cells of the
\* whole table (the sample tables have fewer than max_locais_cap cells)
SampleFromWholeTable ==
    /\ {Cell(df[locais_amostra[a]]) : a \in 1..Len(locais_amostra)}
           = {Cell(df[r]) : r \in 1..Len(df)}
    /\ \A a \in 1..Len(locais_amostra) :
           \A r \in 1..(locais_amostra[a] - 1) :
               Cell(df[r]) # Cell(df[locais_amostra[a]])

\* the _norm column of the raw POI column c is (v - min) / range with min
\* and range taken over the filtered records
NormOverFiltered(c) ==
    LET n == Len(df_filtrado)
        v == [j \in 1..n |-> FillNa(poi[c][df_filtrado[j]])]
        mn == CHOOSE x \in {v[j] : j \in 1..n} : \A j \in 1..n : x <= v[j]
        mx == CHOOSE x \in {v[j] : j \in 1..n} : \A j \in 1..n : x >= v[j]
        norm(j) == df_feat.cols[NormCol(c)][j][1]
    IN  \A j \in 1..n :
            /\ norm(j).den > 0
            /\ mx > mn => norm(j).num * (mx - mn) = norm(j).den * (v[j] - mn)
            /\ mx = mn => norm(j).num = 0

\* C30: every region returned by gerar_regioes_ideais comes from a record
\* that satisfies all active filters (class in the selected set, business
\* type and neighbourhood compared ignoring case), an empty filter keeping
\* every record; the filters act after the enrichment: the representative
\* locations are drawn from the whole table, and the min-max normalization
\* is computed over the filtered records only.
C30_RegionsFromFilteredRecords ==
    /\ FiltersApplied => FilteredAreTheSatisfying
    /\ pc = "returned" =>
           \A m \in 1..Len(regioes) :
               /\ regioes[m].idx \in 1..Len(df)
               /\ SatisfiesFilters(df[regioes[m].idx])
               /\ regioes[m].lat = df[regioes[m].idx].lat
               /\ regioes[m].lon = df[regioes[m].idx].lon
    /\ sess = "retry" => SampleFromWholeTable
    /\ (FiltersApplied /\ pc \notin {"g_filtered"} /\ Len(df_filtrado) > 0)
           => \A c \in RawPoiCols(poi) : NormOverFiltered(c)

\* an enriched call with the filter tipo = "academia" on a table whose
\* second record is a Mercado: that record is a representative location
\* but no region; both regions are Academias, and their gym value is
\* normalized to 0 although the excluded record has another gym count
C30_Witness ==
    /\ pc = "returned"
    /\ usar_api
    /\ filtros.tipo = "academia"
    /\ Len(df) = 3
    /\ df_filtrado = <<1, 3>>
    /\ 2 \in {locais_amostra[a] : a \in 1..Len(locais_amostra)}
    /\ Len(regioes) = 2
    /\ df[3].tipo_comercial = Val("Academia")
    /\ FillNa(poi[<<"poi", "gym", 800>>][1]) # FillNa(poi[<<"poi", "gym", 800>>][2])
    /\ \A j \in 1..2 : df_feat.cols[<<"poi", "gym", 800, "norm">>][j][1].num = 0
=============================================================================
